---- MODULE Spec2Model ----
(***************************************************************************)
(* physprep: trigger-channel run segmentation (volume_counter), channel    *)
(* mapping (order_channels) and the subject/session pass (get_info) of     *)
(* src/physprep/prepare/get_info.py.                                       *)
(*                                                                         *)
(* Conventions.  A Python dict is a sequence of [key, val] records in      *)
(* insertion order when its order is iterated, and a TLA+ function when    *)
(* it is only indexed.  A repetition time is an integer number of          *)
(* milliseconds (tr = 1.49 s is 1490), so that (end - start) / fs / tr is  *)
(* the exact rational (end - start) * 1000 / (fs * tr).  A raised          *)
(* exception is a value [kind |-> "raise", exc |-> <class name>].          *)
(***************************************************************************)
EXTENDS Integers, Sequences, FiniteSets, TLC

VARIABLES
    pc,               \* the position of the call being followed
    acq_channels,     \* order_channels: the raw channel labels
    metadata_physio,  \* the workflow configuration
    oc_ret,           \* order_channels: what the call gave
    root_exists,      \* volume_counter: os.path.exists(root)
    dirs,             \* volume_counter: what list_sub lists, session by session
    tr,               \* volume_counter: the repetition time, in milliseconds
    trigger_ch,       \* volume_counter: the requested trigger channel
    vc_ret,           \* volume_counter: what the call gave
    count_vol,        \* get_info: whether the triggers are counted
    scanning_sheet,   \* get_info: the manual ledger, when one is given
    save,             \* get_info: whether the report is written
    todo,             \* get_info: the sessions the loop has not reached yet
    cur,              \* get_info: what the disk held for the session just done
    nb_expected_runs, \* get_info: the report
    written,          \* get_info: the <sub>_sessions.json written
    gi_ret,           \* get_info: what the call gave
    outdir,           \* _check_filename: the directory, a string
    filename,         \* _check_filename: the file name, a string
    extension,        \* _check_filename: the extension, when one is given
    overwrite,        \* _check_filename: the overwrite flag
    disk,             \* _check_filename: the paths that exist
    cf_ret,           \* _check_filename: what the call gave
    option,           \* _check_input_validity: the string entered
    valid_options,    \* _check_input_validity: what is accepted
    empty,            \* _check_input_validity: whether a blank is accepted
    civ_ret,          \* _check_input_validity: what the call gave
    steps,            \* create_config_preprocessing: the steps collected
    tmp,              \* create_config_preprocessing: the step being entered
    tmp_params,       \* create_config_preprocessing: its parameters
    method,           \* create_config_preprocessing: the filter type as typed
    lowcut,           \* create_config_preprocessing: the lower cutoff entered
    highcut,          \* create_config_preprocessing: the higher cutoff entered
    strategy_file,    \* create_config_preprocessing: the file written
    ccp_ret,          \* create_config_preprocessing: what the call gave
    signals,          \* create_config_workflow: the signals collected
    signal,           \* create_config_workflow: the signal being entered
    workflow_file,    \* create_config_workflow: the file written
    ccw_ret,          \* create_config_workflow: what the call gave
    data_type,        \* extract_cardiac: the kind of signal
    library,          \* extract_cardiac: what the signal-processing libraries do
    ec_ret,           \* extract_cardiac: what the call gave
    workflow_strategy, \* features_extraction_workflow: the signals to extract
    extraction,       \* features_extraction_workflow: what the extractions give
    fe_outdir,        \* features_extraction_workflow: the outdir argument
    fe_filename,      \* features_extraction_workflow: the filename argument
    fe_save,          \* features_extraction_workflow: the save argument
    fe_disk,          \* features_extraction_workflow: the directories and files
    fe_ret            \* features_extraction_workflow: what the call gave

\* In get_info, tr is the local of that name (0 while unbound), trigger_ch is
\* the argument tr_channel, and root_exists, dirs and vc_ret are those of the
\* call of volume_counter made for the session just done.
vars == <<pc, acq_channels, metadata_physio, oc_ret,
          root_exists, dirs, tr, trigger_ch, vc_ret,
          count_vol, scanning_sheet, save, todo, cur, nb_expected_runs, written, gi_ret,
          outdir, filename, extension, overwrite, disk, cf_ret,
          option, valid_options, empty, civ_ret,
          steps, tmp, tmp_params, method, lowcut, highcut, strategy_file, ccp_ret,
          signals, signal, workflow_file, ccw_ret,
          data_type, library, ec_ret,
          workflow_strategy, extraction, fe_outdir, fe_filename, fe_save, fe_disk, fe_ret>>

channel_vars == <<acq_channels, oc_ret>>

segmenter_vars == <<root_exists, dirs, tr, trigger_ch, vc_ret>>

get_info_vars ==
    <<count_vol, scanning_sheet, save, todo, cur, nb_expected_runs, written, gi_ret>>

filename_vars == <<outdir, filename, extension, overwrite, disk, cf_ret>>

validity_vars == <<option, valid_options, empty, civ_ret>>

config_vars ==
    <<steps, tmp, tmp_params, method, lowcut, highcut, strategy_file, ccp_ret>>

workflow_vars == <<signals, signal, workflow_file, ccw_ret>>

utils_vars == <<filename_vars, validity_vars, config_vars, workflow_vars>>

cardiac_vars == <<data_type, library, ec_ret>>

features_vars ==
    <<workflow_strategy, extraction, fe_outdir, fe_filename, fe_save, fe_disk, fe_ret>>

process_vars == <<cardiac_vars, features_vars>>

\* ------------------------------------------------------------ bounds

\* Longest raw channel list of a recording.
MaxChannels == 3

\* Most roles a workflow configuration declares.
MaxRoles == 2

\* Number of samples of a recording whose trigger trace is drawn freely.
MaxSample == 6

\* Most recording files listed over the sessions of one volume_counter call, and
\* the number of samples of each when there are several.
MaxFiles == 2

FewSamples == 3

\* Most imaging sidecars (runs) of a session, most recordings listed for a
\* session of get_info, and most rows of a scanning sheet.
MaxSidecars == 2

MaxAcq == 1

MaxRows == 2

\* Most sessions of the subject.
MaxSessions == 2

\* Most characters of a file name and of an extension.
MaxNameLen == 3

MaxExtLen == 3

\* Most characters of an option typed at a prompt.
MaxOptionLen == 3

\* Most steps entered into a preprocessing configuration.
MaxSteps == 2

\* Most raw channels of the recording a written configuration is used on.
MaxRawChannels == 2

\* Most signal types of a workflow strategy whose features are extracted.
MaxSignals == 2

\* ------------------------------------------------------------ helpers

Range(s) == {s[i] : i \in 1..Len(s)}

\* Sequences over S without repetition, of length at most n.
DistinctSeqs(S, n) ==
    UNION {{s \in [1..k -> S] : \A i, j \in 1..k : i # j => s[i] # s[j]} : k \in 0..n}

Raise(exc, msg) == [kind |-> "raise", exc |-> exc, msg |-> msg]

NoResult == [kind |-> "none"]

\* ------------------------------------------------------------ order_channels

\* metadata_physio[key]["Channel"]: a KeyError when the entry has no such key.
HasChannel(entry) == "Channel" \in DOMAIN entry.val

\* The inner loop `for key in metadata_physio` for one raw channel: the keys
\* appended to ch_names, in the dict's order, from position k on.
RECURSIVE matched_keys(_, _, _)
matched_keys(channel, md, k) ==
    IF k > Len(md) THEN <<>>
    ELSE (IF channel = md[k].val.Channel THEN <<md[k].key>> ELSE <<>>)
         \o matched_keys(channel, md, k + 1)

\* The outer loop `for idx, channel in enumerate(acq_channels)` from 0-based
\* position idx on: the entries appended to ch_names and to chsel.
RECURSIVE scan_channels(_, _, _)
scan_channels(acq, md, idx) ==
    IF idx >= Len(acq) THEN [ch_names |-> <<>>, chsel |-> <<>>]
    ELSE LET channel == acq[idx + 1]
             keys    == matched_keys(channel, md, 1)
             rest    == scan_channels(acq, md, idx + 1)
         IN  [ch_names |-> (IF keys = <<>> THEN <<channel>> ELSE keys) \o rest.ch_names,
              chsel    |-> [j \in 1..Len(keys) |-> idx + 1] \o rest.chsel]

\* order_channels without the check of line 45.
order_channels_unchecked(acq, md) ==
    IF acq # <<>> /\ \E k \in 1..Len(md) : ~HasChannel(md[k])
    THEN Raise("KeyError", "Channel")
    ELSE LET r == scan_channels(acq, md, 0)
         IN  IF Len(md) # Len(r.chsel)
             THEN Raise("ValueError", "Some channels are not present")
             ELSE [kind |-> "return", ch_names |-> r.ch_names, chsel |-> r.chsel]

order_channels(acq, md) ==
    IF acq # <<>> /\ \E k \in 1..Len(md) : ~HasChannel(md[k])
    THEN Raise("KeyError", "Channel")
    ELSE LET r == scan_channels(acq, md, 0)
         IN  IF Len(r.chsel) = 0
             THEN Raise("ValueError", "No correspondence")
             ELSE IF Len(md) # Len(r.chsel)
             THEN Raise("ValueError", "Some channels are not present")
             ELSE [kind |-> "return", ch_names |-> r.ch_names, chsel |-> r.chsel]


\* ------------------------------------------------------------ volume_counter

\* The trigger amplitude a sample must exceed (bio_df[...] > 4).
TriggerThreshold == 4

\* A trace lists the samples that are not at the idle level 0, by index.
Sample(trace, i) == IF i \in DOMAIN trace THEN trace[i] ELSE 0

\* The threshold taken as reached, not exceeded.
query_df_at_threshold(trace) ==
    {i \in DOMAIN trace : Sample(trace, i) >= TriggerThreshold}

\* query_df: the indices of the samples over the threshold (an idle sample, 0,
\* never is).
query_df(trace) == {i \in DOMAIN trace : Sample(trace, i) > TriggerThreshold}

\* list(query_df.index): the index of a table is ascending.
RECURSIVE index_list(_)
index_list(S) ==
    IF S = {} THEN <<>>
    ELSE LET m == CHOOSE x \in S : \A y \in S : x <= y
         IN  <<m>> \o index_list(S \ {m})

\* tr rounded down, not up.
ceil_as_floor(ms) == ms \div 1000

\* math.ceil(tr), tr in milliseconds.
ceil(ms) == (ms + 999) \div 1000

\* Python's round(num / den) for num >= 0, den > 0: to nearest, a tie to even.
round(num, den) ==
    LET q == num \div den
        r == num % den
    IN  IF 2 * r < den THEN q
        ELSE IF 2 * r > den THEN q + 1
        ELSE IF q % 2 = 0 THEN q ELSE q + 1

\* The trigger column: trigger_ch when the recording has it, "TTL" otherwise.
trigger_index(columns, ch) ==
    IF ch \in Range(columns) THEN ch
    ELSE IF "TTL" \in Range(columns) THEN "TTL"
    ELSE "ValueError"

\* The loop with a gap of tr_period taken as a boundary too.
RECURSIVE parse_list_inclusive(_, _, _)
parse_list_inclusive(session, tr_period, idx) ==
    IF idx >= Len(session) THEN <<>>
    ELSE (IF session[idx + 1] - session[idx] >= tr_period
          THEN <<<<session[idx], session[idx + 1]>>>>
          ELSE <<>>)
         \o parse_list_inclusive(session, tr_period, idx + 1)

\* The loop of lines 141-152 from Python index idx on: the (end of run, start of
\* next run) pairs of the gaps longer than tr_period.
RECURSIVE parse_list(_, _, _)
parse_list(session, tr_period, idx) ==
    IF idx >= Len(session) THEN <<>>
    ELSE (IF session[idx + 1] - session[idx] > tr_period
          THEN <<<<session[idx], session[idx + 1]>>>>
          ELSE <<>>)
         \o parse_list(session, tr_period, idx + 1)

\* The tuples with each later run started at the end of the run before it.
run_blocks_from_end(start, end, parse) ==
    <<<<start, parse[1][1]>>>>
    \o [i \in 1..Len(parse) |->
           IF i + 1 <= Len(parse) THEN <<parse[i][1], parse[i + 1][1]>>
           ELSE <<parse[i][1], end>>]

\* The tuples pushed last run first.
run_blocks_reversed(start, end, parse) ==
    [i \in 1..(Len(parse) + 1) |->
        IF i = 1 THEN <<parse[Len(parse)][2], end>>
        ELSE IF i = Len(parse) + 1 THEN <<start, parse[1][1]>>
        ELSE <<parse[Len(parse) + 1 - i][2], parse[Len(parse) + 2 - i][1]>>]

\* Lines 162-173: the (run_start, run_end) tuples.
run_blocks(start, end, parse) ==
    <<<<start, parse[1][1]>>>>
    \o [i \in 1..Len(parse) |->
           IF i + 1 <= Len(parse) THEN <<parse[i][2], parse[i + 1][1]>>
           ELSE <<parse[i][2], end>>]

\* Line 154: round((end - start) / fs / tr + 1).
single_run_count(start, end, fs, ms) ==
    round((end - start) * 1000 + fs * ms, fs * ms)

\* The rounded quotient alone, without the run's first pulse.
block_count_bare(block, fs, ms) ==
    round((block[2] - block[1]) * 1000, fs * ms)

\* Line 177: round(((end - start) / fs) / tr) + 1.
block_count(block, fs, ms) ==
    round((block[2] - block[1]) * 1000, fs * ms) + 1

\* One pass of the body of `for file in sorted(dirs[exp])` on the decoded
\* recording bio: what the file contributes.
count_file(bio, ms, ch) ==
    IF trigger_index(bio.columns, ch) = "ValueError"
    THEN Raise("ValueError", "'TTL' is not in list")
    ELSE LET session   == index_list(query_df(bio.data[trigger_index(bio.columns, ch)]))
             tr_period == bio.fs * ceil(ms)
         IN  IF session = <<>>
             THEN [kind |-> "no_trigger"]
             ELSE LET start == session[1]
                      end   == session[Len(session)]
                      parse == parse_list(session, tr_period, 1)
                  IN  IF Len(parse) = 0
                      THEN [kind |-> "single",
                            runs |-> single_run_count(start, end, bio.fs, ms)]
                      ELSE LET blocks == run_blocks(start, end, parse)
                           IN  [kind |-> "multi",
                                runs |-> [i \in 1..Len(blocks) |->
                                             block_count(blocks[i], bio.fs, ms)]]

\* A Python value stored in ses_runs[exp]: a number, or a list of numbers.
PyInt(n) == [type |-> "int", val |-> <<n>>]

PyList(l) == [type |-> "list", val |-> l]

\* Lines 155-158 and 178-181: how a file's counts enter ses_runs[exp].
store_runs(ses_runs, exp, c) ==
    IF exp \notin DOMAIN ses_runs
    THEN (exp :> <<(IF c.kind = "single" THEN PyInt(c.runs) ELSE PyList(c.runs))>>)
         @@ ses_runs
    ELSE [ses_runs EXCEPT ![exp] =
             Append(@, IF c.kind = "single" THEN PyList(<<c.runs>>) ELSE PyList(c.runs))]

\* The files as they are listed, unsorted.
as_listed(files) == files

\* sorted(dirs[exp]): the files by name.
RECURSIVE sorted(_)
sorted(files) ==
    IF files = <<>> THEN <<>>
    ELSE LET k == CHOOSE i \in 1..Len(files) :
                      \A j \in 1..Len(files) : files[i].name <= files[j].name
         IN  <<files[k]>>
             \o sorted([j \in 1..(Len(files) - 1) |->
                           IF j < k THEN files[j] ELSE files[j + 1]])

\* The files in the order the two loops read them, each with its session.
RECURSIVE reading_order(_, _)
reading_order(d, k) ==
    IF k > Len(d) THEN <<>>
    ELSE LET files == sorted(d[k].files)
         IN  [i \in 1..Len(files) |-> [exp |-> d[k].exp, bio |-> files[i].bio]]
             \o reading_order(d, k + 1)

\* The loops of lines 101-181 from the k-th file read on, ses_runs being what is
\* stored so far: the early return, the exception, or the final ses_runs.
RECURSIVE count_files(_, _, _, _, _)
count_files(work, k, ses_runs, ms, ch) ==
    IF k > Len(work) THEN [kind |-> "counted", ses_runs |-> ses_runs]
    ELSE LET c == count_file(work[k].bio, ms, ch)
         IN  IF c.kind = "raise" THEN c
             ELSE IF c.kind = "no_trigger"
             THEN [kind |-> "return2", msg |-> "No trigger input",
                   columns |-> work[k].bio.columns]
             ELSE count_files(work, k + 1, store_runs(ses_runs, work[k].exp, c), ms, ch)

EmptyDict == [x \in {} |-> <<>>]

volume_counter(exists, d, md, ms, ch) ==
    IF ~exists THEN Raise("ValueError", "Couldn't find the following directory")
    ELSE LET work == reading_order(d, 1)
             c    == count_files(work, 1, EmptyDict, ms, ch)
         IN  IF c.kind # "counted" THEN c
             ELSE IF work = <<>>
             THEN Raise("UnboundLocalError", "bio_df")
             ELSE LET o == order_channels(work[Len(work)].bio.columns, md)
                  IN  IF o.kind = "raise" THEN o
                      ELSE [kind |-> "return3", ses_runs |-> c.ses_runs,
                            ch_names |-> o.ch_names, chsel |-> o.chsel]


\* ------------------------------------------------------------ get_info

\* d[k] = v on a dict.
Put(d, k, v) == [x \in DOMAIN d \cup {k} |-> IF x = k THEN v ELSE d[x]]

Digits == <<"0", "1", "2", "3", "4", "5", "6", "7", "8", "9">>

\* f"{n:02d}", for n < 100.
TwoDigits(n) == Digits[(n \div 10) + 1] \o Digits[(n % 10) + 1]

Reverse(s) == [i \in 1..Len(s) |-> s[Len(s) + 1 - i]]

\* ThreeDigits(n) is the "001" of "ses-001".
ThreeDigits(n) == Digits[(n \div 100) + 1] \o TwoDigits(n % 100)

SessionName(n) == "ses-" \o ThreeDigits(n)

\* f"p{sub[-2:]}_friends{exp[-3:]}", the label of the session in the sheet.
sheet_label(exp) ==
    "p01_friends" \o ThreeDigits(CHOOSE n \in 0..999 : SessionName(n) = exp)

\* What nb_expected_runs[exp]["recorded_triggers"] may hold: a dict, or a string.
PyDict(d) == [type |-> "dict", val |-> d]

PyStr(str) == [type |-> "str", val |-> str]

\* The dirs of the call volume_counter(..., ses=exp, ...) of lines 360-367: the
\* recordings listed for that one session.
session_dirs(exp, acq) == <<[exp |-> exp, files |-> acq]>>

\* fnmatch.filter(matches, "*-mag*").
RECURSIVE filter_mag(_)
filter_mag(matches) ==
    IF matches = <<>> THEN <<>>
    ELSE (IF Head(matches).mag THEN <<Head(matches)>> ELSE <<>>) \o filter_mag(Tail(matches))

\* Lines 316-321: the "#volumes" of the row idx rows after the rows of the sheet
\* labelled with this session, converted with int().
sheet_volumes(rows, exp, idx) ==
    LET found   == {r \in 1..Len(rows) : rows[r].label = sheet_label(exp)}
        vol_idx == {r + idx : r \in found}
    IN  IF \E r \in vol_idx : r > Len(rows)
        THEN Raise("IndexError", "positional indexers are out-of-bounds")
        ELSE IF Cardinality(vol_idx) # 1
        THEN Raise("TypeError", "cannot convert the series to <class 'int'>")
        ELSE [kind |-> "value", val |-> rows[CHOOSE r \in vol_idx : TRUE].volumes]

\* read_sidecars storing a key (holding 0) for a run with no volume count and no
\* sheet, instead of skipping it.
RECURSIVE read_sidecars_keeping_key(_, _, _, _, _, _, _)
read_sidecars_keeping_key(matches, idx, volumes, tasks, t, exp, sheet) ==
    IF idx >= Len(matches)
    THEN [kind |-> "read", volumes |-> volumes, tasks |-> tasks, tr |-> t]
    ELSE IF ~matches[idx + 1].has_shape /\ sheet.given /\ sheet_volumes(sheet.rows, exp, idx).kind = "raise"
    THEN sheet_volumes(sheet.rows, exp, idx)
    ELSE read_sidecars_keeping_key(matches, idx + 1,
             Put(volumes, TwoDigits(idx + 1),
                 IF matches[idx + 1].has_shape THEN matches[idx + 1].volumes
                 ELSE IF sheet.given THEN sheet_volumes(sheet.rows, exp, idx).val
                 ELSE 0),
             Append(tasks, matches[idx + 1].task), matches[idx + 1].tr, exp, sheet)

\* The loop of lines 295-326 over the sorted sidecars, from 0-based position idx
\* on, with the dict, the task list and tr as they stand.
RECURSIVE read_sidecars(_, _, _, _, _, _, _)
read_sidecars(matches, idx, volumes, tasks, t, exp, sheet) ==
    IF idx >= Len(matches)
    THEN [kind |-> "read", volumes |-> volumes, tasks |-> tasks, tr |-> t]
    ELSE LET bold == matches[idx + 1]
             key  == TwoDigits(idx + 1)
         IN  IF bold.has_shape
             THEN read_sidecars(matches, idx + 1, Put(volumes, key, bold.volumes),
                                Append(tasks, bold.task), bold.tr, exp, sheet)
             ELSE IF sheet.given
             THEN LET v == sheet_volumes(sheet.rows, exp, idx)
                  IN  IF v.kind = "raise" THEN v
                      ELSE read_sidecars(matches, idx + 1, Put(volumes, key, v.val),
                                         Append(tasks, bold.task), bold.tr, exp, sheet)
             ELSE read_sidecars(matches, idx + 1, volumes,
                                Append(tasks, bold.task), bold.tr, exp, sheet)

\* run_dict with its keys counted from 0.
run_dict_from_zero(items) ==
    [k \in {"run-" \o TwoDigits(i - 1) : i \in 1..Len(items)} |->
        items[CHOOSE i \in 1..Len(items) : k = "run-" \o TwoDigits(i - 1)]]

\* Lines 370-375: run_dict from vol_in_biopac[exp].
run_dict(items) == [k \in {"run-" \o TwoDigits(i) : i \in 1..Len(items)} |->
                       items[CHOOSE i \in 1..Len(items) : k = "run-" \o TwoDigits(i)]]

\* Lines 360-382: what becomes of the session's entry once volume_counter has
\* given v: the unpacking into three names, run_dict, and the two handlers.
unpack_counts(entry, exp, v) ==
    IF v.kind = "raise"
    THEN IF v.exc = "KeyError"
         THEN [kind |-> "next", entry |-> entry, vc |-> v]
         ELSE [kind |-> "raise", exc |-> v.exc, msg |-> v.msg, entry |-> entry, vc |-> v]
    ELSE IF v.kind = "return2"
    THEN [kind |-> "raise", exc |-> "ValueError",
          msg |-> "not enough values to unpack (expected 3, got 2)",
          entry |-> entry, vc |-> v]
    ELSE IF exp \notin DOMAIN v.ses_runs
    THEN [kind |-> "next", entry |-> entry, vc |-> v]
    ELSE [kind |-> "next", vc |-> v,
          entry |-> Put(Put(Put(entry,
              "recorded_triggers", PyDict(run_dict(v.ses_runs[exp]))),
              "ch_names", v.ch_names),
              "chsel", v.chsel)]

\* count_triggers without the os.path.isfile test of line 352.
count_triggers_any_file(entry, env, md, t, ch) ==
    unpack_counts(entry, env.exp,
                  volume_counter(TRUE, session_dirs(env.exp, env.acq), md, t, ch))

\* Lines 347-390: the counting part of the loop body, on the session's entry.
count_triggers(entry, env, md, t, ch) ==
    IF ~env.isfile
    THEN [kind |-> "next", entry |-> entry, vc |-> NoResult]
    ELSE unpack_counts(entry, env.exp,
                       volume_counter(TRUE, session_dirs(env.exp, env.acq), md, t, ch))

\* The pass ends: nb_expected_runs[exp] is the entry as it stands, and the loop
\* goes on unless c is an exception.
end_session(report, exp, t, c) ==
    [kind |-> c.kind, report |-> Put(report, exp, c.entry), tr |-> t, vc |-> c.vc,
     exc |-> IF c.kind = "raise" THEN c.exc ELSE "", msg |-> IF c.kind = "raise" THEN c.msg ELSE ""]

\* Lines 332-343: the session's entry once the sidecars are read.
session_entry(e, n, acq) ==
    Put(Put(Put(Put(e.volumes,
        "expected_runs", n),
        "task", e.tasks),
        "tr", e.tr),
        "in_file", Reverse([i \in 1..Len(acq) |-> acq[i].name]))

\* Lines 327-390: the session's entry from what the sidecars gave (e), n of
\* them being kept, and the counting when it is asked for.
push_entry(report, env, md, counting, ch, n, e) ==
    IF e.kind = "raise"
    THEN [kind |-> "raise", exc |-> e.exc, msg |-> e.msg, report |-> report,
          tr |-> 0, vc |-> NoResult]
    ELSE IF e.tr = 0
    THEN [kind |-> "raise", exc |-> "UnboundLocalError", msg |-> "tr", report |-> report,
          tr |-> 0, vc |-> NoResult]
    ELSE end_session(report, env.exp, e.tr,
             IF counting
             THEN count_triggers(session_entry(e, n, env.acq), env, md, e.tr, ch)
             ELSE [kind |-> "next", entry |-> session_entry(e, n, env.acq), vc |-> NoResult])

\* Lines 286-290: the sidecars kept, before they are sorted.
kept_matches(matches) ==
    IF matches[1].mario THEN filter_mag(matches) ELSE matches

\* One pass of the body of `for exp in sorted(ses_runs_matches)` (lines 271-391).
session_body(report, t0, env, md, counting, ch, sheet) ==
    IF env.acq = <<>> \/ env.matches = <<>>
    THEN [kind |-> "next", report |-> report, tr |-> t0, vc |-> NoResult, exc |-> "", msg |-> ""]
    ELSE push_entry(report, env, md, counting, ch, Len(kept_matches(env.matches)),
                    read_sidecars(sorted(kept_matches(env.matches)), 0, EmptyDict, <<>>, t0,
                                  env.exp, sheet))

\* ------------------------------------------------------------ _check_filename

\* A string is the sequence of its characters.
Whitespace == {" "}

\* p.rfind(ch), 1-based: 0 when ch is not in p.
rfind(p, ch) ==
    IF \A i \in 1..Len(p) : p[i] # ch THEN 0
    ELSE CHOOSE i \in 1..Len(p) : p[i] = ch /\ \A j \in (i + 1)..Len(p) : p[j] # ch

\* os.path.splitext: the split is at the last dot, when that dot is after the
\* last separator and some character between them is not a dot.
splitext(p) ==
    IF /\ rfind(p, ".") > rfind(p, "/")
       /\ \E i \in (rfind(p, "/") + 1)..(rfind(p, ".") - 1) : p[i] # "."
    THEN [root |-> SubSeq(p, 1, rfind(p, ".") - 1), ext |-> SubSeq(p, rfind(p, "."), Len(p))]
    ELSE [root |-> p, ext |-> <<>>]

\* str.strip(): without the whitespace at both ends.
strip(p) ==
    IF \A i \in 1..Len(p) : p[i] \in Whitespace THEN <<>>
    ELSE SubSeq(p,
                CHOOSE i \in 1..Len(p) :
                    p[i] \notin Whitespace /\ \A j \in 1..(i - 1) : p[j] \in Whitespace,
                CHOOSE i \in 1..Len(p) :
                    p[i] \notin Whitespace /\ \A j \in (i + 1)..Len(p) : p[j] \in Whitespace)

\* os.path.join(a, b).
join(a, b) ==
    IF b # <<>> /\ b[1] = "/" THEN b
    ELSE IF a = <<>> \/ a[Len(a)] = "/" THEN a \o b
    ELSE a \o <<"/">> \o b

\* Lines 10-13: the file name with the extension asked for.
with_extension(name, ext) ==
    IF ~ext.given THEN name
    ELSE IF splitext(name).ext = <<>> \/ splitext(name).ext # ext.str
    THEN splitext(name).root \o ext.str
    ELSE name

\* Lines 16-29 on the name of lines 10-13.
check_exists(dir, name, over, paths) ==
    IF strip(join(dir, name)) \in paths /\ ~over
    THEN Raise("FileExistsError", "Killing the script because the file already exist.")
    ELSE [kind |-> "return", filename |-> name]

_check_filename(dir, name, ext, over, paths) ==
    check_exists(dir, with_extension(name, ext), over, paths)

\* ------------------------------------------------------------ _check_input_validity

\* The character U+00B2 (superscript two): a digit for str.isdigit(), and no
\* digit for int() and float().
SuperscriptTwo == "sup2"

IsAsciiDigit(c) == \E i \in 1..10 : Digits[i] = c

\* str.isdigit().
isdigit(s) ==
    s # <<>> /\ \A i \in 1..Len(s) : IsAsciiDigit(s[i]) \/ s[i] = SuperscriptTwo

\* `ch in s` for a character ch.
contains(s, ch) == \E i \in 1..Len(s) : s[i] = ch

\* The number a string of ASCII digits writes.
RECURSIVE decimal(_)
decimal(s) ==
    IF s = <<>> THEN 0
    ELSE decimal(SubSeq(s, 1, Len(s) - 1)) * 10
         + ((CHOOSE i \in 1..10 : Digits[i] = s[Len(s)]) - 1)

\* Python values: floats are num / den with den the least power of ten.
RECURSIVE PyFloat(_, _)
PyFloat(num, den) ==
    IF den > 1 /\ num % 10 = 0 THEN PyFloat(num \div 10, den \div 10)
    ELSE [type |-> "float", val |-> <<num, den>>]

PyFalse == [type |-> "bool", val |-> <<FALSE>>]

PyNone == [type |-> "NoneType", val |-> <<>>]

RECURSIVE power_of_ten(_)
power_of_ten(n) == IF n = 0 THEN 1 ELSE 10 * power_of_ten(n - 1)

\* int(s) of a string: surrounding whitespace aside, ASCII digits only.
int(s) ==
    IF strip(s) # <<>> /\ \A i \in 1..Len(strip(s)) : IsAsciiDigit(strip(s)[i])
    THEN [kind |-> "return", val |-> PyInt(decimal(strip(s)))]
    ELSE Raise("ValueError", "invalid literal for int() with base 10")

\* float(s) of a string: surrounding whitespace aside, ASCII digits with at
\* most one point and at least one digit.
float(s) ==
    IF /\ \A i \in 1..Len(strip(s)) : IsAsciiDigit(strip(s)[i]) \/ strip(s)[i] = "."
       /\ \E i \in 1..Len(strip(s)) : IsAsciiDigit(strip(s)[i])
       /\ Cardinality({i \in 1..Len(strip(s)) : strip(s)[i] = "."}) <= 1
    THEN [kind |-> "return",
          val |-> PyFloat(decimal(SelectSeq(strip(s), IsAsciiDigit)),
                          IF contains(s, ".")
                          THEN power_of_ten(Len(strip(s)) - rfind(strip(s), "."))
                          ELSE 1)]
    ELSE Raise("ValueError", "could not convert string to float")

\* The items of a list of valid options: the types int and float, and strings.
TypeItem(name) == [t |-> "type", v |-> <<name>>]

StrItem(s) == [t |-> "str", v |-> s]

\* valid_options: a list of items, or one item alone.
ListOf(items) == [is_list |-> TRUE, items |-> items]

Alone(item) == [is_list |-> FALSE, items |-> <<item>>]

Blank == {<<>>, <<" ">>}

\* A word of letters is written as one token.
ResampleSynonyms ==
    {<<"resampling">>, <<"resample">>, <<"upsampling">>, <<"upsample">>,
     <<"downsampling">>, <<"downsample">>}

\* Lines 38-45 and 74-78: a number where int or float is accepted in a list.
number_in_list(opt) ==
    IF contains(opt, ".") \/ contains(opt, ",") THEN float(opt)
    ELSE IF ~isdigit(opt) THEN [kind |-> "return", val |-> PyFalse]
    ELSE int(opt)

\* An option among the strings of a list, given back as typed.
option_in_list_verbatim(opt, items) ==
    IF StrItem(opt) \notin Range(items) THEN [kind |-> "return", val |-> PyFalse]
    ELSE [kind |-> "return", val |-> PyStr(opt)]

\* Lines 47-60: an option among the strings of a list.
option_in_list(opt, items) ==
    IF StrItem(opt) \notin Range(items) THEN [kind |-> "return", val |-> PyFalse]
    ELSE IF opt \in ResampleSynonyms
    THEN [kind |-> "return", val |-> PyStr(<<"signal_resample">>)]
    ELSE [kind |-> "return", val |-> PyStr(opt)]

\* Lines 61-72: valid_options is int or "odd".
whole_number(opt, odd) ==
    IF ~isdigit(opt) THEN [kind |-> "return", val |-> PyFalse]
    ELSE IF int(opt).kind = "raise" THEN int(opt)
    ELSE IF odd /\ int(opt).val.val[1] % 2 = 0 THEN [kind |-> "return", val |-> PyFalse]
    ELSE int(opt)

\* Lines 73-78: valid_options is float.
decimal_number(opt) ==
    IF contains(opt, ".") \/ contains(opt, ",") THEN float(opt)
    ELSE [kind |-> "return", val |-> PyFalse]

_check_input_validity(opt, valid, blank_ok) ==
    IF valid.is_list
    THEN IF blank_ok /\ opt \in Blank THEN [kind |-> "return", val |-> PyStr(opt)]
         ELSE IF TypeItem("int") \in Range(valid.items) \/ TypeItem("float") \in Range(valid.items)
         THEN number_in_list(opt)
         ELSE option_in_list(opt, valid.items)
    ELSE IF valid.items[1] \in {TypeItem("int"), StrItem(<<"odd">>)}
    THEN whole_number(opt, valid.items[1] = StrItem(<<"odd">>))
    ELSE IF valid.items[1] = TypeItem("float") THEN decimal_number(opt)
    ELSE [kind |-> "return", val |-> PyNone]

\* ------------------------------------------------------------ create_config_preprocessing

valid_filters ==
    ListOf(<<StrItem(<<"butterworth">>), StrItem(<<"fir">>), StrItem(<<"bessel">>),
             StrItem(<<"savgol">>), StrItem(<<"notch">>)>>)

valid_steps ==
    ListOf(<<StrItem(<<"filtering">>), StrItem(<<"resampling">>), StrItem(<<"resample">>),
             StrItem(<<"upsampling">>), StrItem(<<"upsample">>),
             StrItem(<<"downsampling">>), StrItem(<<"downsample">>)>>)

numbers == ListOf(<<TypeItem("int"), TypeItem("float")>>)

yes_no == ListOf(<<StrItem(<<"y">>), StrItem(<<"n">>)>>)

JsonExtension == [given |-> TRUE, str |-> <<".", "j", "s", "o", "n">>]

\* str.lower() on the words typed: "Notch" is the one with a capital.
lower(s) == [i \in 1..Len(s) |-> IF s[i] = "Notch" THEN "notch" ELSE s[i]]

\* `x is False` for a Python value x.
IsFalse(x) == x.type = "bool" /\ x.val = <<FALSE>>

\* `x in ["", " "]` for a Python value x.
IsBlank(x) == x.type = "str" /\ x.val \in Blank

\* `x == "word"` for a Python value x.
IsWord(x, word) == x.type = "str" /\ x.val = <<word>>

\* Free text typed at a prompt of _create_ref.
FreeText == PyStr(<<"a">>)

\* _create_ref: the reference of a journal, of a book or of neither, as the
\* answers to its two questions decide.
_create_ref(journal, book) ==
    LET head == Put(Put(Put(EmptyDict, "authors", FreeText), "year", FreeText),
                    "title", FreeText)
        body == IF journal
                THEN Put(Put(Put(Put(Put(head, "journal", FreeText), "volume", FreeText),
                                 "issue", FreeText), "page", FreeText), "doi", FreeText)
                ELSE IF book
                THEN Put(Put(head, "publisher", FreeText), "location", FreeText)
                ELSE head
    IN  PyDict(Put(body, "url", FreeText))

\* Where the filter prompts go on after the one at `from`, by the filter type as
\* it was typed (lines 184, 187, 217, 223): "params" when none is left.
after_prompt(from, typed) ==
    IF from = "method" /\ typed = <<"notch">> THEN "ccp_Q"
    ELSE IF from \in {"method", "Q"} /\ typed \in {<<"butterworth">>, <<"fir">>, <<"bessel">>}
    THEN "ccp_lowcut"
    ELSE IF from \in {"method", "Q", "cutoff"}
            /\ typed \in {<<"savgol">>, <<"butterworth">>, <<"bessel">>}
    THEN "ccp_order"
    ELSE IF from \in {"method", "Q", "cutoff", "order"} /\ typed = <<"savgol">>
    THEN "ccp_window_size"
    ELSE "params"

\* ------------------------------------------------------------ create_config_workflow

valid_signals ==
    ListOf(<<StrItem(<<"cardiac_ppg">>), StrItem(<<"cardiac_ecg">>),
             StrItem(<<"electrodermal">>), StrItem(<<"respiratory">>),
             StrItem(<<"trigger">>)>>)

\* Lines 293-297: the strategies listed in the package's directory, and "new".
preprocessing_strategy == ListOf(<<StrItem(<<"strategy">>), StrItem(<<"new">>)>>)

\* Lines 316-345: what a signal starts with.
signal_description(name) ==
    IF name = "cardiac_ppg"
    THEN [id |-> "PPG", Description |-> "continuous pulse measurement", Units |-> "V"]
    ELSE IF name = "cardiac_ecg"
    THEN [id |-> "ECG", Description |-> "continuous electrocardiogram measurement",
          Units |-> "mV"]
    ELSE IF name = "electrodermal"
    THEN [id |-> "EDA", Description |-> "continuous electrodermal activity measurement",
          Units |-> "microsiemens"]
    ELSE IF name = "respiratory"
    THEN [id |-> "RESP", Description |-> "continuous breathing measurement",
          Units |-> "cm H2O"]
    ELSE [id |-> "TTL", Description |-> "continuous measurement of the scanner trigger signal",
          Units |-> "V"]

\* d[key] = val on a dict kept in insertion order.
set_item(d, key, val) ==
    IF \E i \in 1..Len(d) : d[i].key = key
    THEN [i \in 1..Len(d) |-> IF d[i].key = key THEN [key |-> key, val |-> val] ELSE d[i]]
    ELSE Append(d, [key |-> key, val |-> val])

\* d[key].update({field: value}).
update(d, key, field, value) ==
    [i \in 1..Len(d) |->
        IF d[i].key = key THEN [key |-> key, val |-> Put(d[i].val, field, value)] ELSE d[i]]

\* ------------------------------------------------------------ extract_cardiac

\* str.lower() on a data type.
lower_type(t) ==
    IF t = "PPG" THEN "ppg" ELSE IF t = "ECG" THEN "ecg"
    ELSE IF t = "EDA" THEN "eda" ELSE IF t = "RESP" THEN "resp" ELSE t

\* An exception caught by the except clause of line 241.
Caught(exc, msg) == [kind |-> "caught", exc |-> exc, msg |-> msg]

\* Lines 166-196: peak detection and its clean-up. lib.keys are the keys of the
\* info dict the detector returns, lib.fails the library call that raises.
find_peaks(dt, lib) ==
    IF dt \notin {"ECG", "PPG"} THEN [kind |-> "unbound"]
    ELSE IF lib.fails = "peaks" THEN Caught("Exception", "peak detection")
    ELSE IF dt = "ECG" /\ "ECG_R_Peaks" \notin lib.keys THEN Caught("KeyError", "ECG_R_Peaks")
    ELSE IF dt = "ECG" /\ "ECG_Peaks" \notin lib.keys THEN Caught("KeyError", "ECG_Peaks")
    ELSE IF dt = "PPG" /\ "Peaks" \notin lib.keys THEN Caught("KeyError", "Peaks")
    ELSE IF lib.fails = "fixpeaks" THEN Caught("Exception", "signal_fixpeaks")
    ELSE [kind |-> "info", info |-> lib.keys \cup {"Peaks", "CleanPeaksNK"}]

\* Lines 198-214: the peaks as a signal, the RR series and their correction.
correct_beats(found, lib) ==
    IF found.kind = "caught" THEN found
    ELSE IF found.kind = "unbound" THEN Caught("UnboundLocalError", "info")
    ELSE IF lib.fails \in {"conversion", "correct_rr", "correct_peaks"}
    THEN Caught("Exception", lib.fails)
    ELSE found

\* Lines 216-220: the rate, from info["CleanPeaksNk"].
compute_rate(corrected, lib) ==
    IF corrected.kind = "caught" THEN corrected
    ELSE IF "CleanPeaksNk" \notin corrected.info THEN Caught("KeyError", "CleanPeaksNk")
    ELSE IF lib.fails = "rate" THEN Caught("Exception", "signal_rate")
    ELSE corrected

CorrectionCounts == {"Ectopic", "Short", "Long", "Extra", "Missed"}

\* Lines 222-247: what is returned, the columns of timeseries and the keys of
\* info; {"Processed": False} when an exception was caught.
cardiac_output(dt, rated) ==
    IF rated.kind = "caught"
    THEN [kind |-> "return", timeseries |-> {lower_type(dt)}, info |-> {"Processed"},
          caught |-> rated.exc]
    ELSE [kind |-> "return",
          timeseries |-> {lower_type(dt) \o "_clean", lower_type(dt) \o "_peaks_nk",
                          lower_type(dt) \o "_peaks_systole", lower_type(dt) \o "_rate"},
          info |-> rated.info \cup CorrectionCounts \cup {"CleanRRSystole"},
          caught |-> "none"]

extract_cardiac(dt, lib) ==
    cardiac_output(dt, compute_rate(correct_beats(find_peaks(dt, lib), lib), lib))

\* ------------------------------------------------------------ features_extraction_workflow

\* Lines 80-89: the extraction of one signal type. A cardiac signal goes through
\* extract_cardiac; for the others ext.rate_key tells whether the info dict that
\* extract_respiratory or extract_electrodermal returns holds "sampling_rate";
\* an id that is none of these leaves timeserie and info as they were.
extract_one(entry, lib, ext) ==
    IF entry.id \in {"ECG", "PPG"} THEN extract_cardiac(entry.id, lib)
    ELSE IF entry.id \in {"RESP", "EDA"}
    THEN [kind |-> "return", timeseries |-> {lower_type(entry.id) \o "_clean"},
          info |-> IF ext.rate_key THEN {"sampling_rate", "peaks"} ELSE {"Processed"}]
    ELSE [kind |-> "stale"]

\* The loop of lines 67-99 from the k-th signal type on, out being timeseries
\* and info_dict so far: keys are signal types, in insertion order.
RECURSIVE extract_all(_, _, _, _, _)
extract_all(strategy, k, out, lib, ext) ==
    IF k > Len(strategy) THEN [kind |-> "extracted", out |-> out]
    ELSE IF ~strategy[k].has_id
    THEN Raise("AttributeError", "'str' object has no attribute 'id'")
    ELSE IF extract_one(strategy[k], lib, ext).kind = "stale"
    THEN (IF k = 1 THEN Raise("UnboundLocalError", "info")
          ELSE Raise("KeyError", "sampling_rate"))
    ELSE IF "sampling_rate" \notin extract_one(strategy[k], lib, ext).info
    THEN Raise("KeyError", "sampling_rate")
    ELSE extract_all(strategy, k + 1,
                     Append(out, [key |-> strategy[k].key,
                                  timeserie |-> extract_one(strategy[k], lib, ext).timeseries,
                                  info |-> extract_one(strategy[k], lib, ext).info
                                               \ {"sampling_rate"}]),
                     lib, ext)

\* str.replace("physio", "desc-features_<key>") on a file name, a sequence of
\* parts.
replace_physio(name, key) ==
    [i \in 1..Len(name) |-> IF name[i] = "physio" THEN "desc-features_" \o key ELSE name[i]]

IsSuffix(part) == part \in {".tsv", ".gz", ".json"}

\* Path.with_suffix: the last suffix of the name, if it has one, gives way to
\* the new one.
with_suffix(name, suffix) ==
    (IF name # <<>> /\ IsSuffix(name[Len(name)]) THEN SubSeq(name, 1, Len(name) - 1) ELSE name)
    \o suffix

Directory(d) == [kind |-> "dir", dir |-> d, name |-> <<>>]

File(d, name) == [kind |-> "file", dir |-> d, name |-> name]

\* Lines 113-126: the two files of each signal type, in directory d.
features_files(out, d, name) ==
    UNION {{File(d, with_suffix(replace_physio(name, out[i].key), <<".tsv", ".gz">>)),
            File(d, with_suffix(replace_physio(name, out[i].key), <<".json">>))} :
              i \in 1..Len(out)}

\* Lines 101-126: the derivatives saved: what the disk holds afterwards, or the
\* exception raised.
save_derivatives(out, dir, name, paths) ==
    IF dir # "None" THEN [kind |-> "saved", disk |-> paths \cup {Directory(dir)}]
    ELSE IF out # <<>> /\ ~name.given
    THEN Raise("AttributeError", "'NoneType' object has no attribute 'replace'")
    ELSE [kind |-> "saved", disk |-> paths \cup features_files(out, "cwd", name.parts)]

\* The whole call, given what the extraction loop gave.
features_saved(c, dir, name, to_save, paths) ==
    IF c.kind = "raise" THEN [ret |-> c, disk |-> paths]
    ELSE IF ~to_save THEN [ret |-> [kind |-> "return", out |-> c.out], disk |-> paths]
    ELSE IF save_derivatives(c.out, dir, name, paths).kind = "raise"
    THEN [ret |-> save_derivatives(c.out, dir, name, paths), disk |-> paths]
    ELSE [ret |-> [kind |-> "return", out |-> c.out],
          disk |-> save_derivatives(c.out, dir, name, paths).disk]

features_extraction_workflow(strategy, lib, ext, dir, name, to_save, paths) ==
    features_saved(extract_all(strategy, 1, <<>>, lib, ext), dir, name, to_save, paths)

\* ------------------------------------------------------------ inputs

\* Channel labels of a recording (the columns of the decoded table are unique).
RawLabels == {"TTL", "PPG", "RSP"}

\* Roles and the labels a workflow configuration may give them.
Roles == {"trigger", "cardiac", "respiratory"}

ConfigLabels == {"TTL", "PPG", "ECG"}

\* One entry of the configuration: the label stored under "Channel", or under
\* "channel" as create_config_workflow writes it.
ConfigEntries ==
    {[key |-> r, val |-> [Channel |-> l]] : r \in Roles, l \in ConfigLabels}
    \cup {[key |-> r, val |-> [channel |-> l]] : r \in Roles, l \in ConfigLabels}

\* The configuration and the raw labels of the Channel Mapper example.
ExampleRaw == <<"TTL", "PPG", "RSP">>

ExampleConfig ==
    <<[key |-> "trigger", val |-> [Channel |-> "TTL"]],
      [key |-> "cardiac", val |-> [Channel |-> "PPG"]]>>

\* Configurations: dicts, so no key twice.
Configs(n) ==
    UNION {{s \in [1..k -> ConfigEntries] :
               \A i, j \in 1..k : i # j => s[i].key # s[j].key} : k \in 0..n}


\* Sampling rates (Hz) and repetition times (ms) of the recordings drawn.
SamplingRates == {1, 2}

RepetitionTimes == {1000, 1500, 2000}

\* Amplitudes of a sample that is not idle: at the threshold, and at full scale.
SampleLevels == {TriggerThreshold, TriggerThreshold + 1}

\* The traces of n samples.
Traces(n, levels) == UNION {[S -> levels] : S \in SUBSET (0..(n - 1))}

\* An idle trace.
Flat == [i \in {} |-> 0]

\* Channel layouts of a recording: its columns, and the one that carries the
\* trigger trace (every other column idles).
Layouts ==
    {[columns |-> <<"TTL", "PPG">>, hot |-> "TTL"],
     [columns |-> <<"TRIG", "TTL">>, hot |-> "TRIG"],
     [columns |-> <<"PPG", "RSP">>, hot |-> "none"]}

\* What read_acqknowledge gives: the table's columns and data, and fs.
Bio(fs, layout, trace) ==
    [fs |-> fs, columns |-> layout.columns,
     data |-> [c \in Range(layout.columns) |-> IF c = layout.hot THEN trace ELSE Flat]]

TTLLayout == [columns |-> <<"TTL", "PPG">>, hot |-> "TTL"]

\* The recordings of the sessions that hold several files: FewSamples samples,
\* idle or at full scale, at 1 Hz.
FewRecordings == {Bio(1, TTLLayout, t) : t \in Traces(FewSamples, {TriggerThreshold + 1})}

\* The recording of the end-to-end scenario: 1000 Hz, pulses at the given samples.
ScenarioPulses == {0, 1490, 2980, 4470, 20000, 21490, 22980}

ScenarioBio == Bio(1000, TTLLayout, [i \in ScenarioPulses |-> TriggerThreshold + 1])

\* The orders in which n file names may be listed.
Orders(n) == {p \in [1..n -> 1..n] : \A i, j \in 1..n : i # j => p[i] # p[j]}

\* The files of one session as list_sub lists them: names and what each decodes to.
Files(names, bios) == [i \in 1..Len(names) |-> [name |-> names[i], bio |-> bios[i]]]

OneFile(bio) == <<[exp |-> "ses-001", files |-> Files(<<1>>, <<bio>>)]>>

TriggerChannels == {"None", "TTL", "TRIG"}

TriggerConfig == <<[key |-> "trigger", val |-> [Channel |-> "TTL"]]>>

SegmenterConfigs == {TriggerConfig, ExampleConfig}

\* ---- get_info

LowercaseConfig == <<[key |-> "trigger", val |-> [channel |-> "TTL"]]>>

\* The sessions of the subject: ses-001 .. ses-00n.
Sessions(n) == [i \in 1..n |-> SessionName(i)]

\* The recordings of the sessions get_info visits: FewSamples samples at 1 Hz.
SessionRecordings ==
    {Bio(1, l, t) : l \in Layouts, t \in Traces(FewSamples, {TriggerThreshold + 1})}

PlainRecording == Bio(1, TTLLayout, [i \in 0..(FewSamples - 1) |-> TriggerThreshold + 1])

\* Volume counts a sidecar carries, and those of the rows of a scanning sheet.
SidecarVolumes == {1, 3}

SheetVolumes == {4, 5}

SidecarTimes == {1000, 2000}

\* A *bold.json of a session: the rank of its name among the session's, the task
\* label in the name, whether the name holds "mario" and "-mag", and what the
\* file holds: RepetitionTime (ms) and, when has_shape, dcmmeta_shape[-1].
Sidecar(rank, mario, mag, t, has_shape, volumes) ==
    [name |-> rank, task |-> (IF mario THEN "mario-" ELSE "task-") \o TwoDigits(rank),
     mario |-> mario, mag |-> mag, tr |-> t, has_shape |-> has_shape, volumes |-> volumes]

Shapes == {[has_shape |-> FALSE, volumes |-> 0]}
          \cup {[has_shape |-> TRUE, volumes |-> v] : v \in SidecarVolumes}

\* The sidecars of a session in the order glob lists them: of one acquisition
\* (one RepetitionTime), each with or without its volume count.
PlainSidecars(n) ==
    {[i \in 1..n |-> Sidecar(order[i], FALSE, FALSE, t, shapes[i].has_shape, shapes[i].volumes)] :
        order \in Orders(n), shapes \in [1..n -> Shapes], t \in SidecarTimes}

\* Those of a mario session: a -mag or a -phase file each.
MarioSidecars(n) ==
    {[i \in 1..n |-> Sidecar(order[i], TRUE, mags[i], 1000, TRUE, 3)] :
        order \in Orders(n), mags \in [1..n -> BOOLEAN]}

\* Those of the sessions whose triggers are counted: every volume count present.
CountedSidecars(n) ==
    {[i \in 1..n |-> Sidecar(i, FALSE, FALSE, t, TRUE, IF i = 1 THEN 3 ELSE 1)] :
        t \in SidecarTimes}

\* The rows of a scanning sheet: the session label and "#volumes".
Sheets(n) ==
    UNION {[1..k -> [label : {sheet_label(SessionName(i)) : i \in 1..2}, volumes : SheetVolumes]] :
              k \in 0..n}

NoSheet == [given |-> FALSE, rows |-> <<>>]

NoSession == [exp |-> "none"]

\* ------------------------------------------------------------ SpecChannels

IdleChannels == acq_channels = <<>> /\ oc_ret = NoResult

IdleSegmenter ==
    /\ root_exists = FALSE
    /\ dirs = <<>>
    /\ tr = 0
    /\ trigger_ch = "None"
    /\ vc_ret = NoResult

IdleGetInfo ==
    /\ count_vol = FALSE
    /\ scanning_sheet = NoSheet
    /\ save = FALSE
    /\ todo = <<>>
    /\ cur = NoSession
    /\ nb_expected_runs = EmptyDict
    /\ written = NoResult
    /\ gi_ret = NoResult

NoExtension == [given |-> FALSE, str |-> <<>>]

IdleFilename ==
    /\ outdir = <<>>
    /\ filename = <<>>
    /\ extension = NoExtension
    /\ overwrite = FALSE
    /\ disk = {}
    /\ cf_ret = NoResult

IdleValidity ==
    /\ option = <<>>
    /\ valid_options = <<>>
    /\ empty = FALSE
    /\ civ_ret = NoResult

IdleConfig ==
    /\ steps = <<>>
    /\ tmp = EmptyDict
    /\ tmp_params = EmptyDict
    /\ method = PyFalse
    /\ lowcut = PyFalse
    /\ highcut = PyFalse
    /\ strategy_file = NoResult
    /\ ccp_ret = NoResult

IdleWorkflow ==
    /\ signals = <<>>
    /\ signal = "none"
    /\ workflow_file = NoResult
    /\ ccw_ret = NoResult

IdleUtils == IdleFilename /\ IdleValidity /\ IdleConfig /\ IdleWorkflow

NoLibrary == [keys |-> {}, fails |-> "none"]

IdleCardiac == data_type = "none" /\ library = NoLibrary /\ ec_ret = NoResult

IdleFeatures ==
    /\ workflow_strategy = <<>>
    /\ extraction = <<>>
    /\ fe_outdir = "None"
    /\ fe_filename = <<>>
    /\ fe_save = FALSE
    /\ fe_disk = {}
    /\ fe_ret = NoResult

IdleProcess == IdleCardiac /\ IdleFeatures

InitChannels ==
    /\ pc = "order_channels"
    /\ acq_channels \in DistinctSeqs(RawLabels, MaxChannels)
    /\ metadata_physio \in Configs(MaxRoles)
    /\ oc_ret = NoResult
    /\ IdleSegmenter
    /\ IdleGetInfo
    /\ IdleUtils
    /\ IdleProcess

OrderChannels ==
    /\ pc = "order_channels"
    /\ oc_ret' = order_channels(acq_channels, metadata_physio)
    /\ pc' = "done"
    /\ UNCHANGED <<acq_channels, metadata_physio, segmenter_vars, get_info_vars, utils_vars, process_vars>>

NextChannels == OrderChannels

SpecChannels == InitChannels /\ [][NextChannels]_vars

\* ------------------------------------------------------------ SpecSegmenter

\* A call on one session of one recording, its trace drawn freely.
InitOneRecording ==
    /\ root_exists = TRUE
    /\ metadata_physio \in SegmenterConfigs
    /\ trigger_ch \in TriggerChannels
    /\ tr \in RepetitionTimes
    /\ \E fs \in SamplingRates, l \in Layouts, t \in Traces(MaxSample, SampleLevels) :
          dirs = OneFile(Bio(fs, l, t))

\* A call on one or two sessions that hold at most MaxFiles files together.
InitFewFiles ==
    /\ root_exists = TRUE
    /\ metadata_physio = TriggerConfig
    /\ trigger_ch = "None"
    /\ tr \in RepetitionTimes
    /\ \E n \in 0..MaxFiles :
          \E names \in Orders(n), bios \in [1..n -> FewRecordings] :
              \/ dirs = <<[exp |-> "ses-001", files |-> Files(names, bios)]>>
              \/ \E m \in 0..(MaxFiles - n) :
                   \E names2 \in Orders(m), bios2 \in [1..m -> FewRecordings] :
                       dirs = <<[exp |-> "ses-001", files |-> Files(names, bios)],
                                [exp |-> "ses-002", files |-> Files(names2, bios2)]>>

\* The call of the end-to-end scenario.
InitScenario ==
    /\ root_exists = TRUE
    /\ metadata_physio \in SegmenterConfigs
    /\ trigger_ch \in TriggerChannels
    /\ tr = 1490
    /\ dirs = OneFile(ScenarioBio)

\* A call on a directory that does not exist.
InitNoRoot ==
    /\ root_exists = FALSE
    /\ metadata_physio = TriggerConfig
    /\ trigger_ch = "None"
    /\ tr \in RepetitionTimes
    /\ dirs = <<>>

InitSegmenter ==
    /\ pc = "volume_counter"
    /\ IdleChannels
    /\ IdleGetInfo
    /\ IdleUtils
    /\ IdleProcess
    /\ vc_ret = NoResult
    /\ (InitOneRecording \/ InitFewFiles \/ InitScenario \/ InitNoRoot)

VolumeCounter ==
    /\ pc = "volume_counter"
    /\ vc_ret' = volume_counter(root_exists, dirs, metadata_physio, tr, trigger_ch)
    /\ pc' = "done"
    /\ UNCHANGED <<channel_vars, metadata_physio, root_exists, dirs, tr, trigger_ch,
                   get_info_vars, utils_vars, process_vars>>

NextSegmenter == VolumeCounter

SpecSegmenter == InitSegmenter /\ [][NextSegmenter]_vars

\* ------------------------------------------------------------ Spec (get_info)

\* A call that counts the triggers.
InitCounting ==
    /\ count_vol = TRUE
    /\ metadata_physio \in {TriggerConfig, ExampleConfig, LowercaseConfig}
    /\ trigger_ch \in {"None", "TRIG"}
    /\ scanning_sheet = NoSheet
    /\ save = FALSE

\* A call that only collects the expected volumes, with or without a sheet.
InitExpected ==
    /\ count_vol = FALSE
    /\ metadata_physio = TriggerConfig
    /\ trigger_ch = "None"
    /\ \/ scanning_sheet = NoSheet
       \/ \E rows \in Sheets(MaxRows) : scanning_sheet = [given |-> TRUE, rows |-> rows]
    /\ save \in BOOLEAN

Init ==
    /\ pc = "get_info"
    /\ IdleChannels
    /\ IdleUtils
    /\ IdleProcess
    /\ root_exists = FALSE
    /\ dirs = <<>>
    /\ vc_ret = NoResult
    /\ tr = 0
    /\ \E n \in 0..MaxSessions : todo = Sessions(n)
    /\ cur = NoSession
    /\ nb_expected_runs = EmptyDict
    /\ written = NoResult
    /\ gi_ret = NoResult
    /\ (InitCounting \/ InitExpected)

\* What the disk holds for a session when the loop reaches it: the recordings
\* list_sub lists, whether the first of name is a file, and the sidecars glob
\* lists.
Session(exp, acq, isfile, matches) ==
    [exp |-> exp, acq |-> acq, isfile |-> isfile, matches |-> matches]

\* The state after one pass of the loop that ended as r.
Passed(env, r) ==
    /\ cur' = env
    /\ root_exists' = (r.vc # NoResult)
    /\ dirs' = IF r.vc # NoResult THEN session_dirs(env.exp, env.acq) ELSE <<>>
    /\ vc_ret' = r.vc
    /\ nb_expected_runs' = r.report
    /\ IF r.kind = "raise"
       THEN /\ pc' = "raised"
            /\ gi_ret' = Raise(r.exc, r.msg)
            /\ UNCHANGED <<tr, todo>>
       ELSE /\ tr' = r.tr
            /\ todo' = Tail(todo)
            /\ UNCHANGED <<pc, gi_ret>>
    /\ UNCHANGED <<channel_vars, metadata_physio, trigger_ch,
                   count_vol, scanning_sheet, save, written, utils_vars, process_vars>>

\* One pass of the loop over the sessions, on whatever the disk holds.
Visit(env) ==
    Passed(env, session_body(nb_expected_runs, tr, env, metadata_physio, count_vol,
                             trigger_ch, scanning_sheet))

GetInfoSession ==
    /\ pc = "get_info"
    /\ todo # <<>>
    /\ LET exp == Head(todo)
       IN  IF count_vol
           THEN \E n \in 0..MaxAcq, k \in 1..MaxSidecars, isfile \in BOOLEAN :
                    \E names \in Orders(n), bios \in [1..n -> SessionRecordings],
                       matches \in CountedSidecars(k) :
                        Visit(Session(exp, Files(names, bios), isfile, matches))
           ELSE \E n \in 0..1, k \in 0..MaxSidecars :
                    \E matches \in PlainSidecars(k) \cup MarioSidecars(k) :
                        Visit(Session(exp, Files([i \in 1..n |-> i], [i \in 1..n |-> PlainRecording]),
                                      TRUE, matches))

\* Lines 393-402: the report is written when save is given, and returned.
GetInfoReturn ==
    /\ pc = "get_info"
    /\ todo = <<>>
    /\ written' = IF save THEN [kind |-> "json", report |-> nb_expected_runs] ELSE written
    /\ gi_ret' = [kind |-> "return", report |-> nb_expected_runs]
    /\ pc' = "done"
    /\ UNCHANGED <<channel_vars, metadata_physio, segmenter_vars,
                   count_vol, scanning_sheet, save, todo, cur, nb_expected_runs, utils_vars, process_vars>>

Next == GetInfoSession \/ GetInfoReturn

Spec == Init /\ [][Next]_vars

\* ------------------------------------------------------------ SpecFilename

\* The characters of the names drawn, and the strings of at most n of them.
Chars == {"a", ".", " "}

Strings(n) == UNION {[1..k -> Chars] : k \in 0..n}

\* The directories drawn: "d", " d" and "".
Outdirs == {<<"d">>, <<" ", "d">>, <<>>}

\* A call of _check_filename: the paths that exist are among the one the file
\* would be written to, with and without the extension, and the one tested (the
\* empty path never exists).
InitFilename ==
    /\ pc = "_check_filename"
    /\ IdleChannels
    /\ IdleSegmenter
    /\ IdleGetInfo
    /\ IdleValidity
    /\ IdleConfig
    /\ IdleWorkflow
    /\ IdleProcess
    /\ metadata_physio = <<>>
    /\ outdir \in Outdirs
    /\ filename \in Strings(MaxNameLen)
    /\ \/ extension = NoExtension
       \/ \E e \in Strings(MaxExtLen) : extension = [given |-> TRUE, str |-> e]
    /\ overwrite \in BOOLEAN
    /\ disk \in SUBSET ({join(outdir, filename),
                         join(outdir, with_extension(filename, extension)),
                         strip(join(outdir, with_extension(filename, extension)))} \ {<<>>})
    /\ cf_ret = NoResult

\* The call: nothing on the disk is touched.
CheckFilename ==
    /\ pc = "_check_filename"
    /\ cf_ret' = _check_filename(outdir, filename, extension, overwrite, disk)
    /\ pc' = "done"
    /\ UNCHANGED <<channel_vars, metadata_physio, segmenter_vars, get_info_vars,
                   outdir, filename, extension, overwrite, disk, validity_vars,
                   config_vars, workflow_vars, process_vars>>

NextFilename == CheckFilename

SpecFilename == InitFilename /\ [][NextFilename]_vars

\* ------------------------------------------------------------ SpecValidity

\* The characters typed, and the words: the options of the prompts and one that
\* is in no list.
TypedChars == {"1", "2", ".", ",", " ", "a", SuperscriptTwo}

TypedWords == {<<"filtering">>, <<"resample">>, <<"upsampling">>, <<"notch">>, <<"y">>, <<"odd">>}

Typed(n) == UNION {[1..k -> TypedChars] : k \in 0..n} \cup TypedWords

\* The lists of strings the prompts accept, and the empty list.
WordLists ==
    {<<StrItem(<<"filtering">>), StrItem(<<"resample">>), StrItem(<<"upsampling">>)>>,
     <<StrItem(<<"notch">>), StrItem(<<"a">>)>>,
     <<StrItem(<<"y">>), StrItem(<<"n">>)>>,
     <<>>}

ValidOptions ==
    {Alone(TypeItem("int")), Alone(TypeItem("float")), Alone(StrItem(<<"odd">>)),
     Alone(StrItem(<<"even">>)),
     ListOf(<<TypeItem("int"), TypeItem("float")>>), ListOf(<<TypeItem("int")>>)}
    \cup {ListOf(l) : l \in WordLists}

InitValidity ==
    /\ pc = "_check_input_validity"
    /\ IdleChannels
    /\ IdleSegmenter
    /\ IdleGetInfo
    /\ IdleFilename
    /\ IdleConfig
    /\ IdleWorkflow
    /\ IdleProcess
    /\ metadata_physio = <<>>
    /\ option \in Typed(MaxOptionLen)
    /\ valid_options \in ValidOptions
    /\ empty \in BOOLEAN
    /\ civ_ret = NoResult

CheckInputValidity ==
    /\ pc = "_check_input_validity"
    /\ civ_ret' = _check_input_validity(option, valid_options, empty)
    /\ pc' = "done"
    /\ UNCHANGED <<channel_vars, metadata_physio, segmenter_vars, get_info_vars,
                   filename_vars, option, valid_options, empty, config_vars,
                   workflow_vars, process_vars>>

NextValidity == CheckInputValidity

SpecValidity == InitValidity /\ [][NextValidity]_vars

\* ------------------------------------------------------------ SpecPreprocessing

\* What is typed at the prompts: a blank, valid entries, a synonym, entries that
\* are not valid, and numbers written with a comma or a superscript.
StepInputs == {<<>>, <<"filtering">>, <<"resample">>, <<"a">>}

MethodInputs == {<<"notch">>, <<"Notch">>, <<"fir">>, <<"butterworth">>, <<"savgol">>, <<"a">>}

NumberInputs == {<<>>, <<"2">>, <<"a">>, <<"1", ",", "2">>}

OrderInputs == {<<"1">>, <<"2">>, <<"a">>, <<SuperscriptTwo>>}

AnswerInputs == {<<"y">>, <<"n">>, <<"a">>}

InitPreprocessing ==
    /\ pc = "create_config_preprocessing"
    /\ IdleChannels
    /\ IdleSegmenter
    /\ IdleGetInfo
    /\ IdleValidity
    /\ IdleConfig
    /\ IdleWorkflow
    /\ IdleProcess
    /\ metadata_physio = <<>>
    /\ outdir = <<"d">>
    /\ filename \in {<<"a">>, <<"a", ".", "j", "s", "o", "n">>}
    /\ extension = JsonExtension
    /\ overwrite \in BOOLEAN
    /\ disk \in SUBSET {<<"d", "/", "a", ".", "j", "s", "o", "n">>}
    /\ cf_ret = NoResult

\* What no prompt of create_config_preprocessing changes.
Elsewhere ==
    UNCHANGED <<channel_vars, metadata_physio, segmenter_vars, get_info_vars,
                outdir, filename, extension, overwrite, validity_vars, workflow_vars,
                process_vars>>

\* An exception leaves the call.
Leave(r) ==
    /\ ccp_ret' = r
    /\ pc' = "done"
    /\ UNCHANGED <<steps, tmp, tmp_params, method, lowcut, highcut, strategy_file, disk, cf_ret>>

\* On to the next prompt, or to line 243 and the reference prompt when the
\* parameters are complete.
Goto(next, params) ==
    /\ pc' = (IF next = "params" THEN "ccp_ref" ELSE next)
    /\ tmp' = (IF next = "params" THEN Put(tmp, "parameters", PyDict(params)) ELSE tmp)
    /\ tmp_params' = params

\* Line 168.
CreateConfigPreprocessing ==
    /\ pc = "create_config_preprocessing"
    /\ cf_ret' = _check_filename(outdir, filename, extension, overwrite, disk)
    /\ IF cf_ret'.kind = "raise"
       THEN ccp_ret' = cf_ret' /\ pc' = "done"
       ELSE ccp_ret' = ccp_ret /\ pc' = "ccp_step"
    /\ UNCHANGED <<steps, tmp, tmp_params, method, lowcut, highcut, strategy_file, disk>>
    /\ Elsewhere

\* Lines 170-181 and 257-262: the step prompt. A blank writes the file; any
\* other answer opens a step under what _check_input_validity gave.
PromptStep(step) ==
    /\ IF IsBlank(step)
       THEN /\ strategy_file' = [kind |-> "written",
                                 path |-> join(outdir, cf_ret.filename),
                                 content |-> steps]
            /\ disk' = disk \cup {join(outdir, cf_ret.filename)}
            /\ ccp_ret' = [kind |-> "return", val |-> PyNone]
            /\ pc' = "done"
            /\ UNCHANGED <<steps, tmp, tmp_params, method, lowcut, highcut>>
       ELSE /\ Len(steps) < MaxSteps
            /\ method' = PyFalse
            /\ lowcut' = PyFalse
            /\ highcut' = PyFalse
            /\ IF IsWord(step, "filtering") \/ IsWord(step, "filter")
               THEN pc' = "ccp_method" /\ tmp' = Put(EmptyDict, "step", step)
                    /\ tmp_params' = EmptyDict
               ELSE IF IsWord(step, "signal_resample")
               THEN pc' = "ccp_desired_sampling_rate" /\ tmp' = Put(EmptyDict, "step", step)
                    /\ tmp_params' = EmptyDict
               ELSE pc' = "ccp_ref"
                    /\ tmp' = Put(Put(EmptyDict, "step", step), "parameters", PyDict(EmptyDict))
                    /\ tmp_params' = EmptyDict
            /\ UNCHANGED <<steps, strategy_file, disk, ccp_ret>>
    /\ UNCHANGED cf_ret

EnterStep ==
    /\ pc = "ccp_step"
    /\ \E typed \in StepInputs :
          PromptStep(_check_input_validity(lower(typed), valid_steps, TRUE).val)
    /\ Elsewhere

\* Lines 183-190: the filter type; the loop ends on any answer, method being
\* what was typed.
EnterMethod ==
    /\ pc = "ccp_method"
    /\ \E typed \in MethodInputs :
          /\ method' = PyStr(typed)
          /\ Goto(after_prompt("method", typed),
                  Put(tmp_params, "method",
                      _check_input_validity(lower(typed), valid_filters, TRUE).val))
    /\ UNCHANGED <<steps, lowcut, highcut, strategy_file, ccp_ret, disk, cf_ret>>
    /\ Elsewhere

\* A number asked for once (lines 192-193): stored whatever the check gave.
PromptQ(r) ==
    IF r.kind = "raise" THEN Leave(r)
    ELSE /\ Goto(after_prompt("Q", method.val), Put(tmp_params, "Q", r.val))
         /\ UNCHANGED <<steps, method, lowcut, highcut, strategy_file, ccp_ret, disk, cf_ret>>

EnterQ ==
    /\ pc = "ccp_Q"
    /\ \E typed \in NumberInputs : PromptQ(_check_input_validity(typed, numbers, TRUE))
    /\ Elsewhere

\* Lines 196-205: the lower cutoff, asked for again while the check gives False.
PromptLowcut(r) ==
    IF r.kind = "raise" THEN Leave(r)
    ELSE /\ lowcut' = r.val
         /\ tmp_params' = (IF IsBlank(r.val) THEN tmp_params ELSE Put(tmp_params, "lowcut", r.val))
         /\ pc' = (IF IsFalse(r.val) THEN "ccp_lowcut" ELSE "ccp_highcut")
         /\ UNCHANGED <<steps, tmp, method, highcut, strategy_file, ccp_ret, disk, cf_ret>>

EnterLowcut ==
    /\ pc = "ccp_lowcut"
    /\ \E typed \in NumberInputs : PromptLowcut(_check_input_validity(typed, numbers, TRUE))
    /\ Elsewhere

\* Lines 206-223: the higher cutoff, and both asked for again when both are
\* blank.
PromptHighcut(r) ==
    IF r.kind = "raise" THEN Leave(r)
    ELSE IF IsFalse(r.val)
    THEN /\ highcut' = r.val
         /\ tmp_params' = Put(tmp_params, "highcut", r.val)
         /\ pc' = "ccp_highcut"
         /\ UNCHANGED <<steps, tmp, method, lowcut, strategy_file, ccp_ret, disk, cf_ret>>
    ELSE IF IsBlank(lowcut) /\ IsBlank(r.val)
    THEN /\ lowcut' = PyFalse
         /\ highcut' = PyFalse
         /\ pc' = "ccp_lowcut"
         /\ UNCHANGED <<steps, tmp, tmp_params, method, strategy_file, ccp_ret, disk, cf_ret>>
    ELSE /\ highcut' = r.val
         /\ Goto(after_prompt("cutoff", method.val),
                 IF IsBlank(r.val) THEN tmp_params ELSE Put(tmp_params, "highcut", r.val))
         /\ UNCHANGED <<steps, method, lowcut, strategy_file, ccp_ret, disk, cf_ret>>

EnterHighcut ==
    /\ pc = "ccp_highcut"
    /\ \E typed \in NumberInputs : PromptHighcut(_check_input_validity(typed, numbers, TRUE))
    /\ Elsewhere

\* Lines 224-229: the order; the loop ends on any answer, order being what was
\* typed.
PromptOrder(r) ==
    IF r.kind = "raise" THEN Leave(r)
    ELSE /\ Goto(after_prompt("order", method.val), Put(tmp_params, "order", r.val))
         /\ UNCHANGED <<steps, method, lowcut, highcut, strategy_file, ccp_ret, disk, cf_ret>>

EnterOrder ==
    /\ pc = "ccp_order"
    /\ \E typed \in OrderInputs :
          PromptOrder(_check_input_validity(typed, Alone(TypeItem("int")), TRUE))
    /\ Elsewhere

\* Lines 230-235: the window size, asked for once.
PromptWindowSize(r) ==
    IF r.kind = "raise" THEN Leave(r)
    ELSE /\ Goto("params", Put(tmp_params, "window_size", r.val))
         /\ UNCHANGED <<steps, method, lowcut, highcut, strategy_file, ccp_ret, disk, cf_ret>>

EnterWindowSize ==
    /\ pc = "ccp_window_size"
    /\ \E typed \in OrderInputs :
          PromptWindowSize(_check_input_validity(typed, Alone(StrItem(<<"odd">>)), TRUE))
    /\ Elsewhere

\* Lines 237-241: the sampling rate, stored at each answer and asked for again
\* while the check gives False.
PromptDesiredSamplingRate(r) ==
    IF r.kind = "raise" THEN Leave(r)
    ELSE /\ Goto(IF IsFalse(r.val) THEN "ccp_desired_sampling_rate" ELSE "params",
                 Put(tmp_params, "desired_sampling_rate", r.val))
         /\ UNCHANGED <<steps, method, lowcut, highcut, strategy_file, ccp_ret, disk, cf_ret>>

EnterDesiredSamplingRate ==
    /\ pc = "ccp_desired_sampling_rate"
    /\ \E typed \in NumberInputs :
          PromptDesiredSamplingRate(_check_input_validity(typed, numbers, TRUE))
    /\ Elsewhere

\* Lines 245-250: the reference question, asked until answered y or n, then the
\* step joins the list; tmp and tmp_params are fresh at the next step prompt.
PromptRef(ref) ==
    /\ IF IsFalse(ref)
       THEN UNCHANGED <<steps, tmp, tmp_params, pc>>
       ELSE /\ \E journal, book \in BOOLEAN :
                  steps' = Append(steps, IF IsWord(ref, "y")
                                         THEN Put(tmp, "reference", _create_ref(journal, book))
                                         ELSE tmp)
            /\ tmp' = EmptyDict
            /\ tmp_params' = EmptyDict
            /\ pc' = "ccp_step"
    /\ UNCHANGED <<method, lowcut, highcut, strategy_file, ccp_ret, disk, cf_ret>>

EnterRef ==
    /\ pc = "ccp_ref"
    /\ \E typed \in AnswerInputs : PromptRef(_check_input_validity(typed, yes_no, FALSE).val)
    /\ Elsewhere

NextPreprocessing ==
    \/ CreateConfigPreprocessing
    \/ EnterStep
    \/ EnterMethod
    \/ EnterQ
    \/ EnterLowcut
    \/ EnterHighcut
    \/ EnterOrder
    \/ EnterWindowSize
    \/ EnterDesiredSamplingRate
    \/ EnterRef

SpecPreprocessing == InitPreprocessing /\ [][NextPreprocessing]_vars

\* ------------------------------------------------------------ SpecWorkflow

SignalInputs == {<<>>, <<"trigger">>, <<"cardiac_ppg">>, <<"a">>}

ChannelInputs == {"TTL", "PPG"}

StrategyInputs == {<<>>, <<"new">>, <<"strategy">>, <<"a">>}

NameInputs == {<<"s">>, <<"a">>}

\* How a nested create_config_preprocessing ends once its file name has passed
\* _check_filename: with its file written, or on the ValueError of a number
\* typed with a comma.
StrategyOutcomes == {"written", "ValueError"}

InitWorkflow ==
    /\ pc = "create_config_workflow"
    /\ acq_channels \in DistinctSeqs(RawLabels, MaxRawChannels)
    /\ oc_ret = NoResult
    /\ IdleSegmenter
    /\ IdleGetInfo
    /\ IdleValidity
    /\ IdleConfig
    /\ IdleWorkflow
    /\ IdleProcess
    /\ metadata_physio = <<>>
    /\ outdir = <<"d">>
    /\ filename = <<"a">>
    /\ extension = JsonExtension
    /\ overwrite \in BOOLEAN
    /\ disk \in SUBSET {<<"d", "/", "a", ".", "j", "s", "o", "n">>,
                        <<"d", "/", "s", ".", "j", "s", "o", "n">>,
                        <<"d", "/", "strategy", ".", "j", "s", "o", "n">>}
    /\ cf_ret = NoResult

\* What no step of create_config_workflow changes.
Outside ==
    UNCHANGED <<channel_vars, metadata_physio, segmenter_vars, get_info_vars,
                outdir, filename, extension, overwrite, validity_vars, config_vars,
                process_vars>>

\* An exception leaves create_config_workflow.
Abort(r) ==
    /\ ccw_ret' = r
    /\ pc' = "done"
    /\ UNCHANGED <<signals, signal, workflow_file, disk>>

\* Line 302.
CreateConfigWorkflow ==
    /\ pc = "create_config_workflow"
    /\ cf_ret' = _check_filename(outdir, filename, extension, overwrite, disk)
    /\ IF cf_ret'.kind = "raise"
       THEN Abort(cf_ret')
       ELSE pc' = "ccw_signal" /\ UNCHANGED <<signals, signal, workflow_file, disk, ccw_ret>>
    /\ Outside

\* Lines 304-345 and 407-413: the signal prompt, asked again while the check
\* gives False. A blank ends the call, writing the file when a signal was
\* entered; a signal is entered with its description.
PromptSignal(r) ==
    IF IsFalse(r)
    THEN UNCHANGED <<pc, signals, signal, workflow_file, disk, ccw_ret>>
    ELSE IF IsBlank(r)
    THEN /\ ccw_ret' = [kind |-> "return", val |-> PyNone]
         /\ IF signals # <<>>
            THEN /\ workflow_file' = [kind |-> "written",
                                      path |-> join(outdir, cf_ret.filename),
                                      content |-> signals]
                 /\ disk' = disk \cup {join(outdir, cf_ret.filename)}
                 /\ pc' = "load_json"
            ELSE pc' = "done" /\ UNCHANGED <<workflow_file, disk>>
         /\ UNCHANGED <<signals, signal>>
    ELSE /\ signals' = set_item(signals, r.val[1], signal_description(r.val[1]))
         /\ signal' = r.val[1]
         /\ pc' = "ccw_channel"
         /\ UNCHANGED <<workflow_file, disk, ccw_ret>>

EnterSignal ==
    /\ pc = "ccw_signal"
    /\ \E typed \in SignalInputs :
          PromptSignal(_check_input_validity(lower(typed), valid_signals, TRUE).val)
    /\ UNCHANGED cf_ret
    /\ Outside

\* Lines 348-353: the channel name, stored as typed.
EnterChannel ==
    /\ pc = "ccw_channel"
    /\ \E typed \in ChannelInputs : signals' = update(signals, signal, "channel", typed)
    /\ pc' = (IF signal # "trigger" THEN "ccw_preprocessing" ELSE "ccw_signal")
    /\ UNCHANGED <<signal, workflow_file, disk, ccw_ret, cf_ret>>
    /\ Outside

\* Lines 394-405: a strategy that is not new, r being what _check_filename
\* gives for it.
UseStrategy(r) ==
    IF r.kind = "raise" THEN Abort(r)
    ELSE /\ signals' = update(signals, signal, "preprocessing_strategy",
                              join(outdir, r.filename))
         /\ pc' = "ccw_signal"
         /\ UNCHANGED <<signal, workflow_file, disk, ccw_ret>>

\* Lines 355-369 and 371: the strategy prompt, asked again while the check gives
\* False.
PromptPreprocessing(r) ==
    IF IsFalse(r)
    THEN UNCHANGED <<pc, signals, signal, workflow_file, disk, ccw_ret>>
    ELSE IF IsWord(r, "new")
    THEN pc' = "ccw_new" /\ UNCHANGED <<signals, signal, workflow_file, disk, ccw_ret>>
    ELSE UseStrategy(_check_filename(outdir, r.val, JsonExtension, overwrite, disk))

EnterPreprocessing ==
    /\ pc = "ccw_preprocessing"
    /\ \E typed \in StrategyInputs :
          PromptPreprocessing(_check_input_validity(typed, preprocessing_strategy, TRUE).val)
    /\ UNCHANGED cf_ret
    /\ Outside

\* Lines 372-393: a new strategy. r is what _check_filename gives for its name,
\* at line 377 and again at line 168 of the nested create_config_preprocessing;
\* the nested call then writes its file or raises.
NewStrategy(r, outcome) ==
    IF r.kind = "raise" THEN Abort(r)
    ELSE IF outcome = "ValueError"
    THEN Abort(Raise("ValueError", "could not convert string to float"))
    ELSE /\ disk' = disk \cup {join(outdir, r.filename)}
         /\ signals' = update(signals, signal, "preprocessing_strategy",
                              join(outdir, r.filename))
         /\ pc' = "ccw_signal"
         /\ UNCHANGED <<signal, workflow_file, ccw_ret>>

EnterNewStrategy ==
    /\ pc = "ccw_new"
    /\ \E typed \in NameInputs, outcome \in StrategyOutcomes :
          NewStrategy(_check_filename(outdir, typed, JsonExtension, overwrite, disk), outcome)
    /\ UNCHANGED cf_ret
    /\ Outside

\* load_json on the file written: the configuration as a user of it gets it.
LoadJson ==
    /\ pc = "load_json"
    /\ metadata_physio' = workflow_file.content
    /\ pc' = "order_channels"
    /\ UNCHANGED <<channel_vars, segmenter_vars, get_info_vars, utils_vars, process_vars>>

NextWorkflow ==
    \/ CreateConfigWorkflow
    \/ EnterSignal
    \/ EnterChannel
    \/ EnterPreprocessing
    \/ EnterNewStrategy
    \/ LoadJson
    \/ OrderChannels

SpecWorkflow == InitWorkflow /\ [][NextWorkflow]_vars

\* ------------------------------------------------------------ SpecCardiac

\* The keys a peak detector may return in its info dict.
LibraryKeys == {"Peaks", "PPG_Peaks", "ECG_R_Peaks", "ECG_Peaks", "sampling_rate", "method"}

\* The library calls, one of which may raise.
LibraryCalls ==
    {"none", "peaks", "fixpeaks", "conversion", "correct_rr", "correct_peaks", "rate"}

Libraries == [keys : SUBSET LibraryKeys, fails : LibraryCalls]

InitCardiac ==
    /\ pc = "extract_cardiac"
    /\ IdleChannels
    /\ IdleSegmenter
    /\ IdleGetInfo
    /\ IdleUtils
    /\ IdleFeatures
    /\ metadata_physio = <<>>
    /\ data_type \in {"PPG", "ECG", "EDA"}
    /\ library \in Libraries
    /\ ec_ret = NoResult

ExtractCardiac ==
    /\ pc = "extract_cardiac"
    /\ ec_ret' = extract_cardiac(data_type, library)
    /\ pc' = "done"
    /\ UNCHANGED <<channel_vars, metadata_physio, segmenter_vars, get_info_vars, utils_vars,
                   data_type, library, features_vars>>

NextCardiac == ExtractCardiac

SpecCardiac == InitCardiac /\ [][NextCardiac]_vars

\* ------------------------------------------------------------ SpecFeatures

\* The signal types of a strategy: its key, the id it carries, and whether the
\* key is an object with an `id` attribute or a plain string.
SignalTypes ==
    {[key |-> "cardiac_ppg", id |-> "PPG"], [key |-> "respiratory", id |-> "RESP"],
     [key |-> "electrodermal", id |-> "EDA"], [key |-> "trigger", id |-> "TTL"]}

StrategyEntries ==
    {[key |-> t.key, id |-> t.id, has_id |-> h] : t \in SignalTypes, h \in BOOLEAN}

\* Strategies: dicts, so no key twice.
Strategies(n) ==
    UNION {{s \in [1..k -> StrategyEntries] :
               \A i, j \in 1..k : i # j => s[i].key # s[j].key} : k \in 0..n}

\* The detector of the cardiac extraction: one that returns "Peaks", one that
\* returns "PPG_Peaks", one that raises.
FewLibraries ==
    {[keys |-> {"Peaks"}, fails |-> "none"], [keys |-> {"PPG_Peaks"}, fails |-> "none"],
     [keys |-> {"Peaks"}, fails |-> "peaks"]}

NoName == [given |-> FALSE, parts |-> <<>>]

Filenames ==
    {NoName, [given |-> TRUE, parts |-> <<"sub-01_", "physio">>],
     [given |-> TRUE, parts |-> <<"sub-01_", "physio", ".tsv", ".gz">>]}

InitFeatures ==
    /\ pc = "features_extraction_workflow"
    /\ IdleChannels
    /\ IdleSegmenter
    /\ IdleGetInfo
    /\ IdleUtils
    /\ metadata_physio = <<>>
    /\ data_type = "none"
    /\ ec_ret = NoResult
    /\ library \in FewLibraries
    /\ workflow_strategy \in Strategies(MaxSignals)
    /\ extraction \in [rate_key : BOOLEAN]
    /\ fe_outdir \in {"None", "out"}
    /\ fe_filename \in Filenames
    /\ fe_save \in BOOLEAN
    /\ fe_disk \in {{}, {Directory("out")}}
    /\ fe_ret = NoResult

Extracted(r) ==
    /\ fe_ret' = r.ret
    /\ fe_disk' = r.disk

FeaturesExtractionWorkflow ==
    /\ pc = "features_extraction_workflow"
    /\ Extracted(features_extraction_workflow(workflow_strategy, library, extraction,
                                              fe_outdir, fe_filename, fe_save, fe_disk))
    /\ pc' = "done"
    /\ UNCHANGED <<channel_vars, metadata_physio, segmenter_vars, get_info_vars, utils_vars,
                   cardiac_vars, workflow_strategy, extraction, fe_outdir, fe_filename,
                   fe_save>>

NextFeatures == FeaturesExtractionWorkflow

SpecFeatures == InitFeatures /\ [][NextFeatures]_vars

\* ------------------------------------------------------------ claims: order_channels

\* Raw channel c carries the label configured for entry e.
Matches(c, e) == HasChannel(e) /\ e.val.Channel = c

\* The configured roles whose label is raw channel c.
RolesOf(c, md) == {md[k].key : k \in {k \in 1..Len(md) : Matches(c, md[k])}}

\* The 1-based positions of the raw channels some role matches.
MatchedPositions(acq, md) == {i \in 1..Len(acq) : RolesOf(acq[i], md) # {}}

IsAscending(s) == \A i, j \in 1..Len(s) : i < j => s[i] < s[j]

Returned == pc = "done" /\ oc_ret.kind = "return"

\* C8: a result of order_channels has one ch_names entry per raw channel, in raw
\* order: the role name where a configured role carries the channel's label, the
\* raw label otherwise; chsel is the ascending list of the 1-based positions of
\* the matched channels; the TTL/PPG/RSP example gives trigger, cardiac, RSP and
\* 1, 2.
C8_ChannelMapperResult ==
    Returned =>
        /\ Len(oc_ret.ch_names) = Len(acq_channels)
        /\ \A i \in 1..Len(acq_channels) :
              IF RolesOf(acq_channels[i], metadata_physio) # {}
              THEN oc_ret.ch_names[i] \in RolesOf(acq_channels[i], metadata_physio)
              ELSE oc_ret.ch_names[i] = acq_channels[i]
        /\ IsAscending(oc_ret.chsel)
        /\ Range(oc_ret.chsel) = MatchedPositions(acq_channels, metadata_physio)
        /\ (acq_channels = ExampleRaw /\ metadata_physio = ExampleConfig
              => /\ oc_ret.ch_names = <<"trigger", "cardiac", "RSP">>
                 /\ oc_ret.chsel = <<1, 2>>)

\* C9: every configured role resolves to exactly one raw channel in a result, and
\* a raw label that matches more than one configured role makes order_channels
\* raise instead of returning several role entries for one raw channel.
C9_RoleUniqueness ==
    pc = "done" =>
        /\ (\E c \in Range(acq_channels) : Cardinality(RolesOf(c, metadata_physio)) > 1)
              => oc_ret.kind = "raise"
        /\ oc_ret.kind = "return" =>
              \A k \in 1..Len(metadata_physio) :
                  Cardinality({i \in 1..Len(acq_channels) :
                                  Matches(acq_channels[i], metadata_physio[k])}) = 1

\* C10: order_channels raises when at least one raw channel matches but fewer raw
\* channels match than there are configured roles, and it returns normally when
\* every configured role is matched by a raw channel.
C10_IncompleteMatch ==
    pc = "done" =>
        LET matched == Cardinality(MatchedPositions(acq_channels, metadata_physio))
        IN  /\ (1 <= matched /\ matched < Len(metadata_physio)) => oc_ret.kind = "raise"
            /\ (/\ Len(metadata_physio) > 0
                /\ \A k \in 1..Len(metadata_physio) :
                      \E i \in 1..Len(acq_channels) :
                          Matches(acq_channels[i], metadata_physio[k]))
                  => oc_ret.kind = "return"

\* C11: when no raw channel equals the "Channel" label of any configured role,
\* order_channels raises and gives no (ch_names, chsel): the ValueError of line
\* 46 when the labels could all be read.
C11_NoChannelMatch ==
    (pc = "done" /\ MatchedPositions(acq_channels, metadata_physio) = {}) =>
        /\ oc_ret.kind = "raise"
        /\ (\A k \in 1..Len(metadata_physio) : HasChannel(metadata_physio[k]))
              => oc_ret = Raise("ValueError", "No correspondence")

C11_Witness ==
    /\ pc = "done"
    /\ acq_channels # <<>>
    /\ metadata_physio # <<>>
    /\ \A k \in 1..Len(metadata_physio) : HasChannel(metadata_physio[k])
    /\ MatchedPositions(acq_channels, metadata_physio) = {}
    /\ oc_ret.kind = "raise"

\* ------------------------------------------------------------ claims: volume_counter

\* The files of the call in the order they are read, and the entry of ses_runs
\* that the k-th of them filled.
Work == reading_order(dirs, 1)

ItemOf(k) ==
    vc_ret.ses_runs[Work[k].exp][Cardinality({j \in 1..k : Work[j].exp = Work[k].exp})]

Counted == pc = "done" /\ vc_ret.kind = "return3"

\* The trigger column of a recording, when it has one.
TriggerColumn(bio) == IF trigger_ch \in Range(bio.columns) THEN trigger_ch ELSE "TTL"

HasTrigger(bio) == TriggerColumn(bio) \in Range(bio.columns)

\* The pulse events of a recording: the samples above 4.
Pulses(bio) ==
    LET t == bio.data[TriggerColumn(bio)] IN {i \in DOMAIN t : t[i] > 4}

First(bio) == CHOOSE a \in Pulses(bio) : \A b \in Pulses(bio) : a <= b

Last(bio) == CHOOSE a \in Pulses(bio) : \A b \in Pulses(bio) : b <= a

\* W = fs * ceil(tr): ceil(tr) is the least whole number of seconds not below tr.
Window(bio) == bio.fs * (CHOOSE n \in 0..tr : n * 1000 >= tr /\ (n - 1) * 1000 < tr)

\* The adjacent pulse events further apart than W: the run boundaries.
Boundaries(bio) ==
    {p \in Pulses(bio) \X Pulses(bio) :
        /\ p[1] < p[2]
        /\ ~ \E c \in Pulses(bio) : p[1] < c /\ c < p[2]
        /\ p[2] - p[1] > Window(bio)}

\* The j-th boundary in time order.
Boundary(bio, j) ==
    CHOOSE p \in Boundaries(bio) : Cardinality({q \in Boundaries(bio) : q[1] < p[1]}) = j - 1

\* The j-th run segment: from the first event or the later event of boundary
\* j - 1, to the earlier event of boundary j or the last event.
SegmentStart(bio, j) == IF j = 1 THEN First(bio) ELSE Boundary(bio, j - 1)[2]

SegmentEnd(bio, j) ==
    IF j = Cardinality(Boundaries(bio)) + 1 THEN Last(bio) ELSE Boundary(bio, j)[1]

\* num / den rounded to the nearest integer, a tie going to the even one.
HalfEven(num, den) ==
    CHOOSE n \in 0..(num \div den + 1) :
        \/ 2 * (n * den - num) < den /\ 2 * (num - n * den) < den
        \/ 2 * (n * den - num) = den /\ n % 2 = 0
        \/ 2 * (num - n * den) = den /\ n % 2 = 0

\* round((end - start) / fs / tr) + 1.
SegmentCount(bio, start, end) == HalfEven((end - start) * 1000, bio.fs * tr) + 1

ScenarioCall == dirs = OneFile(ScenarioBio) /\ tr = 1490

\* C1: at 1000 Hz and TR 1.49 s, pulses at 0, 1490, 2980, 4470, 20000, 21490 and
\* 22980 give exactly two runs, counting 4 and then 3.
C1_Scenario ==
    (pc = "done" /\ ScenarioCall) =>
        /\ vc_ret.kind = "return3"
        /\ DOMAIN vc_ret.ses_runs = {"ses-001"}
        /\ Len(vc_ret.ses_runs["ses-001"]) = 1
        /\ vc_ret.ses_runs["ses-001"][1].val = <<4, 3>>

C1_Witness == pc = "done" /\ ScenarioCall /\ vc_ret.kind = "return3"

\* C2: for each recording, the boundaries found are exactly the adjacent events
\* more than W = fs * ceil(tr) apart (W itself is no boundary), the recording gets
\* one count more than it has such gaps, and with one gap the two counts are
\* those of first..event before the gap and event after the gap..last.
C2_RunBoundaries ==
    Counted =>
        \A k \in 1..Len(Work) :
            LET bio == Work[k].bio
                n   == Cardinality(Boundaries(bio))
            IN  /\ parse_list(index_list(Pulses(bio)), Window(bio), 1)
                      = [j \in 1..n |-> Boundary(bio, j)]
                /\ Len(ItemOf(k).val) = n + 1
                /\ n = 1 =>
                      ItemOf(k).val =
                          <<SegmentCount(bio, First(bio), Boundary(bio, 1)[1]),
                            SegmentCount(bio, Boundary(bio, 1)[2], Last(bio))>>

C2_Witness ==
    /\ Counted
    /\ \E k \in 1..Len(Work) :
          /\ Cardinality(Boundaries(Work[k].bio)) = 1
          /\ \E a, b \in Pulses(Work[k].bio) : b - a = Window(Work[k].bio)

\* C3: a recording with pulse events and no gap over W gets exactly one count,
\* round((last - first) / fs / tr) + 1, rounded half to even before the + 1.
C3_SingleRunCount ==
    Counted =>
        \A k \in 1..Len(Work) :
            Boundaries(Work[k].bio) = {} =>
                ItemOf(k).val =
                    <<SegmentCount(Work[k].bio, First(Work[k].bio), Last(Work[k].bio))>>

\* C4: with k >= 1 boundaries there are k + 1 segments, (first, e_1),
\* (s_i, e_i+1) and (s_k, last), and the counts returned are
\* round((end - start) / fs / tr) + 1 of each, in segment order.
C4_MultiRunSegments ==
    Counted =>
        \A k \in 1..Len(Work) :
            LET bio == Work[k].bio
                n   == Cardinality(Boundaries(bio))
            IN  n >= 1 =>
                    ItemOf(k).val =
                        [j \in 1..(n + 1) |->
                            SegmentCount(bio, SegmentStart(bio, j), SegmentEnd(bio, j))]

C4_Witness ==
    Counted /\ \E k \in 1..Len(Work) : Cardinality(Boundaries(Work[k].bio)) >= 2

\* C7: when the files read so far have pulses and the next one has a trigger
\* channel with no sample over the threshold, volume_counter does not raise: it
\* returns the placeholder "No trigger input" with that recording's raw channels.
C7_NoTriggerInput ==
    (pc = "done" /\ root_exists) =>
        \A k \in 1..Len(Work) :
            (/\ \A j \in 1..k : HasTrigger(Work[j].bio)
             /\ \A j \in 1..(k - 1) : Pulses(Work[j].bio) # {}
             /\ Pulses(Work[k].bio) = {})
            => vc_ret = [kind |-> "return2", msg |-> "No trigger input",
                         columns |-> Work[k].bio.columns]

C7_Witness ==
    /\ pc = "done"
    /\ vc_ret.kind = "return2"
    /\ \E i \in DOMAIN Work[1].bio.data["TTL"] : Work[1].bio.data["TTL"][i] = 4

\* The pulse events of a recording as the code lists them, and the segments it
\* builds from them: (start, end) alone when no gap is over tr_period.
PulseList(bio) == index_list(query_df(bio.data[TriggerColumn(bio)]))

SegmentsFrom(session, parse) ==
    IF parse = <<>> THEN <<<<session[1], session[Len(session)]>>>>
    ELSE run_blocks(session[1], session[Len(session)], parse)

SegmentsOf(session, tr_period) == SegmentsFrom(session, parse_list(session, tr_period, 1))

Segments(bio) == SegmentsOf(PulseList(bio), bio.fs * ceil(tr))

\* The entry of ses_runs that the k-th of the files read filled.
ItemIn(work, k) ==
    vc_ret.ses_runs[work[k].exp][Cardinality({j \in 1..k : work[j].exp = work[k].exp})]

\* Segments in the order of their start, none ending before it starts, each
\* ending before the next starts; as many as the counts stored.
Ordered(seg, counts) ==
    /\ Len(seg) = Len(counts)
    /\ \A i \in 1..Len(seg) : seg[i][1] <= seg[i][2]
    /\ \A i \in 1..(Len(seg) - 1) : seg[i][1] < seg[i + 1][1] /\ seg[i][2] < seg[i + 1][1]

AllOrdered(work) ==
    \A k \in 1..Len(work) : Ordered(Segments(work[k].bio), ItemIn(work, k).val)

\* C24: for every recording counted, the run segments are in the order of their
\* start index, each has start <= end, and each ends before the next starts.
C24_SegmentOrdering == Counted => AllOrdered(Work)

SinglePulseAmongThree(seg) == Len(seg) >= 3 /\ \E i \in 1..3 : seg[i][1] = seg[i][2]

C24_Witness ==
    Counted /\ \E k \in 1..Len(Work) : SinglePulseAmongThree(Segments(Work[k].bio))

\* Counts that are whole numbers >= 1, and 1 for a segment of one pulse event.
Positive(seg, counts) ==
    /\ \A i \in 1..Len(counts) : counts[i] \in Nat /\ counts[i] >= 1
    /\ \A i \in 1..Len(seg) : seg[i][1] = seg[i][2] => counts[i] = 1

AllPositive(work) ==
    \A k \in 1..Len(work) : Positive(Segments(work[k].bio), ItemIn(work, k).val)

\* C25: every count volume_counter returns, of a recording of one run or of
\* several, is a whole number >= 1; a run of a single pulse event counts 1.
C25_CountsPositive == Counted => AllPositive(Work)

SinglePulseRun(seg, counts) ==
    Len(seg) >= 2 /\ \E i \in 1..Len(seg) : seg[i][1] = seg[i][2] /\ counts[i] = 1

\* A recording of one pulse event, and one of several runs one of which is a
\* single pulse event.
C25_Witness ==
    /\ Counted
    /\ \E k \in 1..Len(Work) : Len(PulseList(Work[k].bio)) = 1 /\ ItemOf(k).val = <<1>>
    /\ \E k \in 1..Len(Work) : SinglePulseRun(Segments(Work[k].bio), ItemOf(k).val)

\* The files read but for the pulse-less ones.
WithPulses == SelectSeq(Work, LAMBDA w : Pulses(w.bio) # {})

\* C26: when the files of a call all have a trigger channel and one of several
\* has no pulse, volume_counter skips that file and returns the counts of the
\* others with the channel names and selection indices.
C26_PulselessFileSkipped ==
    (/\ pc = "done"
     /\ root_exists
     /\ Len(Work) >= 2
     /\ \A k \in 1..Len(Work) : HasTrigger(Work[k].bio)
     /\ \E k \in 1..Len(Work) : Pulses(Work[k].bio) = {}
     /\ \E k \in 1..Len(Work) : Pulses(Work[k].bio) # {})
    => /\ vc_ret.kind = "return3"
       /\ vc_ret.ses_runs = count_files(WithPulses, 1, EmptyDict, tr, trigger_ch).ses_runs

\* ------------------------------------------------------------ claims: get_info

\* The session the loop has just been through, and its entry in the report.
Visited == cur # NoSession

Entry == nb_expected_runs[cur.exp]

\* The session's triggers were counted and made it into the report.
Reconciled ==
    /\ Visited
    /\ pc # "raised"
    /\ cur.exp \in DOMAIN nb_expected_runs
    /\ "recorded_triggers" \in DOMAIN Entry

\* The sidecars the session's runs are read from, in run order.
RunSidecars ==
    LET kept == IF cur.matches[1].mario
                THEN SelectSeq(cur.matches, LAMBDA m : m.mag) ELSE cur.matches
    IN  [i \in 1..Len(kept) |->
            CHOOSE m \in Range(kept) : Cardinality({o \in Range(kept) : o.name < m.name}) = i - 1]

\* What the segmenter stored for the session, item by item.
Detected == vc_ret.ses_runs[cur.exp]

RunKey(i) == "run-" \o TwoDigits(i)

\* The keys get_info writes into a session's entry.
EntryKeys(n) ==
    {TwoDigits(i) : i \in 1..n}
    \cup {"expected_runs", "task", "tr", "in_file", "recorded_triggers", "ch_names", "chsel"}

ZeroPulses ==
    /\ Visited
    /\ count_vol
    /\ cur.acq # <<>>
    /\ cur.matches # <<>>
    /\ cur.isfile
    /\ \A i \in 1..Len(cur.acq) :
          HasTrigger(cur.acq[i].bio) /\ Pulses(cur.acq[i].bio) = {}

\* C6: when a session's recording has no sample above the trigger threshold,
\* get_info raises nothing, the session is in the report with a placeholder
\* string as recorded_triggers, and the loop goes on to the next session.
C6_ZeroPulsesPlaceholder ==
    ZeroPulses =>
        /\ pc # "raised"
        /\ cur.exp \in DOMAIN nb_expected_runs
        /\ "recorded_triggers" \in DOMAIN Entry
        /\ Entry["recorded_triggers"].type = "str"
        /\ cur.exp \notin Range(todo)

\* The runs segmentation infers in the first n recordings of the session: one
\* more than the boundaries of each.
RECURSIVE RunsInferred(_)
RunsInferred(n) ==
    IF n = 0 THEN 0
    ELSE RunsInferred(n - 1) + Cardinality(Boundaries(cur.acq[n].bio)) + 1

\* C12: when segmentation of a session's recording infers k runs, the session's
\* recorded_triggers is a mapping with exactly the keys run-01 .. run-k, each
\* mapped to one integer pulse count.
C12_RecordedTriggersShape ==
    Reconciled =>
        /\ Entry["recorded_triggers"].type = "dict"
        /\ DOMAIN Entry["recorded_triggers"].val
              = {RunKey(i) : i \in 1..RunsInferred(Len(cur.acq))}
        /\ \A k \in DOMAIN Entry["recorded_triggers"].val :
              Entry["recorded_triggers"].val[k].type = "int"

\* The call of volume_counter is reached for the session, and its recordings
\* hold neither the channel asked for nor one named "TTL".
TriggerAbsent ==
    /\ Visited
    /\ count_vol
    /\ cur.acq # <<>>
    /\ cur.matches # <<>>
    /\ cur.isfile
    /\ \A i \in 1..Len(cur.acq) : ~HasTrigger(cur.acq[i].bio)

\* C13: when a session's recording has neither the requested trigger channel nor
\* a channel named "TTL", get_info does not abort: the session gets a
\* session-level error in the report and the loop goes on.
C13_TriggerChannelAbsent ==
    TriggerAbsent =>
        /\ pc # "raised"
        /\ cur.exp \in DOMAIN nb_expected_runs
        /\ "recorded_triggers" \in DOMAIN Entry
        /\ Entry["recorded_triggers"].type = "str"
        /\ cur.exp \notin Range(todo)

\* No recording is listed for the session.
NoRecordingListed == Visited /\ cur.acq = <<>>

\* The triggers are to be counted and the session's sidecars are there, but the
\* recording listed for it is not a file.
RecordingNotAFile ==
    /\ Visited
    /\ count_vol
    /\ cur.acq # <<>>
    /\ cur.matches # <<>>
    /\ ~cur.isfile

\* C14 (as stated): when the recording of a session is absent, get_info does not
\* fail, the session is kept in the report with its detected counts recorded as
\* a "no recording" placeholder, and the loop goes on.
C14_MissingRecordingKept ==
    (NoRecordingListed \/ RecordingNotAFile) =>
        /\ pc # "raised"
        /\ cur.exp \notin Range(todo)
        /\ cur.exp \in DOMAIN nb_expected_runs
        /\ "recorded_triggers" \in DOMAIN Entry
        /\ Entry["recorded_triggers"].type = "str"

\* C14 (amended): when the recording of a session is absent, get_info does not
\* fail, does not call volume_counter and goes on to the next session; a
\* session with no .acq listed is left out of the report, and a session whose
\* listed file does not exist is in the report with its expected-run fields and
\* no recorded_triggers, ch_names or chsel.
C14_MissingRecording ==
    /\ NoRecordingListed =>
          /\ pc # "raised"
          /\ cur.exp \notin Range(todo)
          /\ vc_ret = NoResult
          /\ cur.exp \notin DOMAIN nb_expected_runs
    /\ RecordingNotAFile =>
          /\ pc # "raised"
          /\ cur.exp \notin Range(todo)
          /\ vc_ret = NoResult
          /\ cur.exp \in DOMAIN nb_expected_runs
          /\ {"expected_runs", "task", "tr", "in_file"} \subseteq DOMAIN Entry
          /\ DOMAIN Entry \cap {"recorded_triggers", "ch_names", "chsel"} = {}

\* The report returned after a first session with no recording listed and a
\* second one whose recording is not a file.
C14_Witness ==
    /\ pc = "done"
    /\ RecordingNotAFile
    /\ cur.exp = SessionName(2)
    /\ DOMAIN gi_ret.report = {SessionName(2)}

\* The session's sidecars were read without a scanning sheet, and its entry made.
ReadWithoutSheet ==
    /\ Visited
    /\ ~scanning_sheet.given
    /\ cur.acq # <<>>
    /\ cur.matches # <<>>
    /\ RunSidecars # <<>>

LedgerRows ==
    {r \in 1..Len(scanning_sheet.rows) : scanning_sheet.rows[r].label = sheet_label(cur.exp)}

FirstLedgerRow == CHOOSE r \in LedgerRows : \A q \in LedgerRows : r <= q

\* The session's sidecars were read with a scanning sheet that has a row for the
\* session and, idx rows after the first such row, a row for every run whose
\* sidecar has no volume count.
ReadWithSheet ==
    /\ Visited
    /\ scanning_sheet.given
    /\ cur.acq # <<>>
    /\ cur.matches # <<>>
    /\ RunSidecars # <<>>
    /\ LedgerRows # {}
    /\ \A i \in 1..Len(RunSidecars) :
          ~RunSidecars[i].has_shape => FirstLedgerRow + (i - 1) <= Len(scanning_sheet.rows)

\* C16: with a scanning sheet, the expected count of a run whose sidecar has no
\* volume count is the "#volumes" of the row idx rows after the first row of the
\* sheet labelled with the session; a run whose sidecar has a volume count gets
\* that count, never the sheet's.
C16_LedgerFallback ==
    ReadWithSheet =>
        /\ pc # "raised"
        /\ cur.exp \in DOMAIN nb_expected_runs
        /\ \A i \in 1..Len(RunSidecars) :
              /\ TwoDigits(i) \in DOMAIN Entry
              /\ Entry[TwoDigits(i)] =
                    IF RunSidecars[i].has_shape THEN RunSidecars[i].volumes
                    ELSE scanning_sheet.rows[FirstLedgerRow + (i - 1)].volumes

\* The configured roles that resolve to a channel of the recording read last.
ResolvedRoles ==
    {k \in 1..Len(metadata_physio) :
        \E c \in Range(Work[Len(Work)].bio.columns) : Matches(c, metadata_physio[k])}

\* The session's triggers are counted (its recordings have a trigger channel
\* with pulses), and some but not all configured roles resolve.
PartlyResolved ==
    /\ Visited
    /\ count_vol
    /\ cur.acq # <<>>
    /\ cur.matches # <<>>
    /\ cur.isfile
    /\ \A i \in 1..Len(cur.acq) : HasTrigger(cur.acq[i].bio) /\ Pulses(cur.acq[i].bio) # {}
    /\ \A k \in 1..Len(metadata_physio) : HasChannel(metadata_physio[k])
    /\ ResolvedRoles # {}
    /\ Cardinality(ResolvedRoles) < Len(metadata_physio)

\* C17: when some but not all configured roles resolve to a channel of a
\* session's recording, no exception leaves get_info and the session is in the
\* report with the reduced channel set.
C17_PartialMismatchRecoverable ==
    PartlyResolved =>
        /\ pc # "raised"
        /\ cur.exp \notin Range(todo)
        /\ cur.exp \in DOMAIN nb_expected_runs
        /\ "chsel" \in DOMAIN Entry
        /\ Len(Entry["chsel"]) = Cardinality(ResolvedRoles)

\* The session just visited is in the report.
InReport == Visited /\ pc # "raised" /\ cur.exp \in DOMAIN nb_expected_runs

\* The keys of an entry that are not expected-volume keys.
RecordKeys ==
    {"expected_runs", "task", "tr", "in_file", "recorded_triggers", "ch_names", "chsel"}

\* C18: for a session in the report, expected_runs is the number of sidecars
\* matched for the session (those kept at line 336), task holds their labels in
\* sorted file order, every expected-volume key is a two-digit ordinal from
\* "01" to expected_runs, and key NN holds the count of the NN-th sidecar in
\* sorted order (the sheet's count for it when the sidecar has none).
C18_ExpectedRunRecord ==
    InReport =>
        /\ Entry["expected_runs"] = Len(RunSidecars)
        /\ Entry["task"] = [i \in 1..Len(RunSidecars) |-> RunSidecars[i].task]
        /\ DOMAIN Entry \ RecordKeys \subseteq {TwoDigits(i) : i \in 1..Entry["expected_runs"]}
        /\ \A i \in 1..Len(RunSidecars) :
              TwoDigits(i) \in DOMAIN Entry =>
                  Entry[TwoDigits(i)] =
                      IF RunSidecars[i].has_shape THEN RunSidecars[i].volumes
                      ELSE scanning_sheet.rows[FirstLedgerRow + (i - 1)].volumes
        /\ pc = "done" => gi_ret.report = nb_expected_runs

\* A returned report whose last session had its two sidecars listed in reverse
\* order, with different volume counts.
C18_Witness ==
    /\ pc = "done"
    /\ InReport
    /\ Len(cur.matches) = 2
    /\ cur.matches[1].name > cur.matches[2].name
    /\ ~cur.matches[1].mario
    /\ gi_ret.report[cur.exp]["task"] = <<cur.matches[2].task, cur.matches[1].task>>
    /\ "01" \in DOMAIN Entry /\ "02" \in DOMAIN Entry
    /\ Entry["01"] # Entry["02"]

\* ------------------------------------------------------------ claims: _check_filename

Checked == pc = "done" /\ cf_ret # NoResult

\* The file name with the extension asked for, and the path of that file.
Normalised == with_extension(filename, extension)

Target == join(outdir, Normalised)

\* C19: _check_filename raises FileExistsError exactly when the file of the
\* (extension-normalised) name exists in outdir and overwrite is False, and
\* returns the name otherwise.
C19_ExistingFilePolicy ==
    Checked =>
        /\ cf_ret.kind = "raise" <=> (Target \in disk /\ ~overwrite)
        /\ cf_ret.kind = "raise" => cf_ret.exc = "FileExistsError"
        /\ cf_ret.kind # "raise" => cf_ret = [kind |-> "return", filename |-> Normalised]

EndsWith(s, suffix) ==
    Len(suffix) <= Len(s) /\ SubSeq(s, Len(s) - Len(suffix) + 1, Len(s)) = suffix

\* C20: when an extension is given, the name returned ends with that extension,
\* a name that already carries the extension is returned unchanged, and
\* _check_filename applied to the name it returned returns the same name.
C20_ExtensionNormalisation ==
    (Checked /\ extension.given /\ cf_ret.kind = "return") =>
        /\ EndsWith(cf_ret.filename, extension.str)
        /\ EndsWith(filename, extension.str) => cf_ret.filename = filename
        /\ _check_filename(outdir, cf_ret.filename, extension, overwrite, disk) = cf_ret

\* ------------------------------------------------------------ claims: _check_input_validity

Validated == pc = "done" /\ civ_ret # NoResult

Gave(v) == civ_ret.kind = "return" /\ civ_ret.val.type = v.type /\ civ_ret.val = v

\* A decimal number: ASCII digits around one point.
DecimalNumber(s) == contains(s, ".") /\ float(s).kind = "return"

\* C21: with valid_options float, a decimal number gives its float value and
\* every other string gives False; no string makes the call raise.
C21_FloatOrFalse ==
    (Validated /\ valid_options = Alone(TypeItem("float")))
        => IF DecimalNumber(option) THEN Gave(float(option).val)
           ELSE Gave(PyFalse)

\* A string made only of the digits 0 to 9.
DigitsOnly(s) == s # <<>> /\ \A i \in 1..Len(s) : IsAsciiDigit(s[i])

\* C22: with valid_options int or "odd", a string of digits gives its integer
\* (for "odd" only when it is odd, an even one gives False) and every other
\* string gives False.
C22_DigitsOrFalse ==
    (Validated /\ valid_options \in {Alone(TypeItem("int")), Alone(StrItem(<<"odd">>))})
        => IF DigitsOnly(option)
              /\ (valid_options = Alone(StrItem(<<"odd">>)) => decimal(option) % 2 = 1)
           THEN Gave(PyInt(decimal(option)))
           ELSE Gave(PyFalse)

\* A list of string options, none of them blank.
StringOptions ==
    /\ valid_options.is_list
    /\ \A i \in 1..Len(valid_options.items) :
           valid_options.items[i].t = "str" /\ valid_options.items[i].v \notin Blank

Listed(s) == \E i \in 1..Len(valid_options.items) : valid_options.items[i].v = s

\* C23: with a list of string options, a blank is given back when empty is
\* set and gives False when it is not; an option of the list is given back, a
\* resampling synonym as "signal_resample"; any other option gives False.
C23_ListedOrFalse ==
    (Validated /\ StringOptions)
        => IF option \in Blank THEN (IF empty THEN Gave(PyStr(option)) ELSE Gave(PyFalse))
           ELSE IF ~Listed(option) THEN Gave(PyFalse)
           ELSE IF option \in ResampleSynonyms THEN Gave(PyStr(<<"signal_resample">>))
           ELSE Gave(PyStr(option))

C23_Witness ==
    /\ Validated
    /\ StringOptions
    /\ option \in ResampleSynonyms
    /\ Listed(option)
    /\ Gave(PyStr(<<"signal_resample">>))

\* ------------------------------------------------------------ claims: create_config_preprocessing

Saved == pc = "done" /\ strategy_file.kind = "written"

Parameters(step) == step["parameters"].val

\* C28: every step written to the configuration file is named "filtering" or
\* "signal_resample", and none of its stored parameters is the rejection value
\* False.
C28_OnlyValidatedStored ==
    Saved =>
        \A i \in 1..Len(strategy_file.content) :
            /\ \/ IsWord(strategy_file.content[i]["step"], "filtering")
               \/ IsWord(strategy_file.content[i]["step"], "signal_resample")
            /\ \A k \in DOMAIN Parameters(strategy_file.content[i]) :
                   ~IsFalse(Parameters(strategy_file.content[i])[k])

\* ------------------------------------------------------------ claims: create_config_workflow

\* C29: every signal entry of a configuration written by create_config_workflow
\* carries its channel label under "Channel", the key order_channels reads, so
\* order_channels on the loaded configuration does not fail on a missing key.
C29_ProducerConsumerKey ==
    /\ workflow_file.kind = "written" =>
           \A i \in 1..Len(workflow_file.content) : HasChannel(workflow_file.content[i])
    /\ (workflow_file.kind = "written" /\ oc_ret.kind = "raise") => oc_ret.exc # "KeyError"

\* ------------------------------------------------------------ claims: extract_cardiac

\* Every library call returns and the detector's info holds the keys read.
LibrarySucceeds ==
    /\ library.fails = "none"
    /\ data_type = "PPG" => "Peaks" \in library.keys
    /\ data_type = "ECG" => {"ECG_R_Peaks", "ECG_Peaks"} \subseteq library.keys

\* C30: for PPG or ECG, when peak detection and correction succeed,
\* extract_cardiac returns the clean signal, the peaks, the corrected peaks and
\* the rate, with the correction counts in info and no failure marker.
C30_CardiacSuccessPath ==
    (pc = "done" /\ ec_ret # NoResult /\ data_type \in {"PPG", "ECG"} /\ LibrarySucceeds)
    => /\ ec_ret.timeseries =
              {lower_type(data_type) \o "_clean", lower_type(data_type) \o "_peaks_nk",
               lower_type(data_type) \o "_peaks_systole", lower_type(data_type) \o "_rate"}
       /\ CorrectionCounts \subseteq ec_ret.info
       /\ "Processed" \notin ec_ret.info

\* ------------------------------------------------------------ claims: features_extraction_workflow

FeaturesReturned == pc = "done" /\ fe_ret.kind = "return"

FilesIn(d) == {f \in fe_disk : f.kind = "file" /\ f.dir = d}

\* C27: a call with save=True and an outdir leaves outdir in place and, for each
\* signal type extracted, one .tsv.gz and one .json file in it; a call with
\* save=False writes no file.
C27_FeaturesPersistence ==
    /\ (FeaturesReturned /\ fe_save /\ fe_outdir # "None") =>
           /\ Directory(fe_outdir) \in fe_disk
           /\ \A i \in 1..Len(fe_ret.out) :
                  /\ \E f \in FilesIn(fe_outdir) : f.name[Len(f.name)] = ".gz"
                  /\ \E f \in FilesIn(fe_outdir) : f.name[Len(f.name)] = ".json"
           /\ Cardinality(FilesIn(fe_outdir)) = 2 * Len(fe_ret.out)
    /\ (pc = "done" /\ fe_ret # NoResult /\ ~fe_save) =>
           {f \in fe_disk : f.kind = "file"} = {}

====
